---------------------------- MODULE Spec2Model ----------------------------
(***************************************************************************)
(* Model of the Browser-ECG-Analyzer: the Python analysis core that the    *)
(* worker loads into Pyodide (src/services/ecgWorker.ts), the worker's     *)
(* message handlers, and the main-thread ECGProcessor                      *)
(* (src/unnamed/part_001).                                                 *)
(*                                                                         *)
(* Conventions.  Sample indices are 0-based as in the Python code; an      *)
(* array is a function with domain 0..N-1 and a Python list is a sequence. *)
(* Voltages are integers in units of 0.001 mV.  Real-valued quantities are *)
(* exact rationals [n |-> numerator, d |-> denominator > 0]; a quantity    *)
(* the code obtains by a square root is carried as its square.  Floating   *)
(* point rounding is not modelled.  The SciPy filters (butter, filtfilt,   *)
(* iirnotch, uniform_filter1d) and the derivative / squaring / integration *)
(* cascade are linear-filter numerics outside the model: the cleaned       *)
(* signal and the integrated signal are inputs.                            *)
(***************************************************************************)
EXTENDS Integers, Sequences, FiniteSets, TLC

VARIABLES
    fs,             \* sample rate handed to the Python functions
    signal_array,   \* cleaned signal (pan_tompkins_detector's signal_array)
    integrated,     \* moving-window integrated signal
    det,            \* local state of the thresholding loop
    r_peak_indices, \* R-peak list handed to the analysis functions
    results,        \* dict returned by process_ecg_complete
    metrics,        \* PatientMetrics built by ECGProcessor.transformResults
    \* the worker (src/services/ecgWorker.ts)
    isPyodideReady,
    initPc,         \* position of initializePyodide
    globals,        \* pyodideInstance.globals
    handlers,       \* message handlers suspended at "await runPythonAsync"
    toWorker,       \* messages posted to the worker, not yet handled
    toMain,         \* messages posted by the worker, not yet handled
    posted,         \* every message the worker has posted, in order
    \* the main thread (ECGProcessor)
    worker,         \* "null" or "created"
    status,
    initializationPromise,
    pendingRequests,
    promises,       \* the promises processECG / preprocessOnly have returned
    now,            \* Date.now()
    \* the service (processECGFile)
    file,           \* the File handed to processECGFile
    parsedData,     \* what parseECGFile returned
    validation,     \* what validateECGData returned
    servicePc,      \* position of processECGFile
    awaiting,       \* index in promises of the promise processECGFile awaits
    serviceResult   \* what the promise returned by processECGFile settles with

coreVars == <<fs, signal_array, integrated, det, r_peak_indices, results, metrics>>

workerVars == <<isPyodideReady, initPc, globals, handlers, toWorker, toMain, posted>>

mainVars == <<worker, status, initializationPromise, pendingRequests, promises, now>>

serviceVars == <<file, parsedData, validation, servicePc, awaiting, serviceResult>>

vars == <<coreVars, workerVars, mainVars, serviceVars>>

\* processECGFile has not been called
NoDocument == [parsererror |-> FALSE, samplerate |-> "absent", waveform |-> <<>>]

ServiceIdle ==
    /\ file = [name |-> "", lines |-> <<>>, document |-> NoDocument]
    /\ parsedData = [format |-> "unknown"]
    /\ validation = [valid |-> FALSE, warnings |-> <<>>]
    /\ servicePc = "idle"
    /\ awaiting = 0
    /\ serviceResult = [type |-> "none"]

\* pyodideInstance.globals before any name is set, and globals.set(name, value)
NoGlobals == [name \in {} |-> 0]

GlobalsSet(g, name, value) ==
    [n \in DOMAIN g \cup {name} |-> IF n = name THEN value ELSE g[n]]

\* the ECGProcessor as constructed and the worker before its first message
ProcessorConstructed ==
    /\ isPyodideReady = FALSE
    /\ initPc = "idle"
    /\ globals = NoGlobals
    /\ handlers = <<>>
    /\ toWorker = <<>>
    /\ toMain = <<>>
    /\ posted = <<>>
    /\ worker = "null"
    /\ status = "uninitialized"
    /\ initializationPromise = "null"
    /\ pendingRequests = {}
    /\ promises = <<>>
    /\ now = 0
    /\ ServiceIdle

-----------------------------------------------------------------------------
(* Exact arithmetic standing for the NumPy float operations.               *)

Abs(x) == IF x < 0 THEN -x ELSE x

Max2(a, b) == IF a > b THEN a ELSE b

Min2(a, b) == IF a < b THEN a ELSE b

\* In the definitions below an operator is applied to the values of its
\* arguments, bound as the tuple args, so that each argument expression is
\* evaluated once, whatever the number of times the operator's body uses it.

RECURSIVE GCD(_, _)
GCD(a, b) == IF b = 0 THEN a ELSE (CHOOSE r \in {GCD(args[1], args[2]) : args \in {<<b, a % b>>}} : TRUE)

RatOf(n, d) ==
    LET s == IF d < 0 THEN -1 ELSE 1
        g == GCD(Abs(n), Abs(d))
    IN  [n |-> (s * n) \div g, d |-> (s * d) \div g]

\* the rational n/d in lowest terms with a positive denominator
Rat(n, d) == (CHOOSE r \in {RatOf(args[1], args[2]) : args \in {<<n, d>>}} : TRUE)

RatInt(k) == [n |-> k, d |-> 1]

\* sign of a/b - c/d for b, d > 0, by the Euclidean expansion (no products,
\* so no 32-bit overflow)
RECURSIVE CmpFrac(_, _, _, _)
CmpFrac(a, b, c, d) ==
    LET qa == a \div b
        qc == c \div d
        ra == a % b
        rc == c % d
    IN  IF qa < qc THEN -1
        ELSE IF qa > qc THEN 1
        ELSE IF ra = 0 /\ rc = 0 THEN 0
        ELSE IF ra = 0 THEN -1
        ELSE IF rc = 0 THEN 1
        ELSE (CHOOSE r \in {CmpFrac(args[1], args[2], args[3], args[4]) : args \in {<<d, rc, b, ra>>}} : TRUE)

CmpRat(x, y) == CmpFrac(x.n, x.d, y.n, y.d)

RatLT(x, y) == (CHOOSE r \in {CmpRat(args[1], args[2]) : args \in {<<x, y>>}} : TRUE) < 0

RatLE(x, y) == (CHOOSE r \in {CmpRat(args[1], args[2]) : args \in {<<x, y>>}} : TRUE) <= 0

RatGT(x, y) == RatLT(y, x)

RatGE(x, y) == RatLE(y, x)

RatPlus(x, y) ==
    LET g == GCD(x.d, y.d)
    IN  Rat(x.n * (y.d \div g) + y.n * (x.d \div g), (x.d \div g) * y.d)

RatAdd(x, y) == (CHOOSE r \in {RatPlus(args[1], args[2]) : args \in {<<x, y>>}} : TRUE)

RatMinus(x, y) == RatPlus(x, [n |-> -y.n, d |-> y.d])

RatSub(x, y) == (CHOOSE r \in {RatMinus(args[1], args[2]) : args \in {<<x, y>>}} : TRUE)

RatTimes(x, p, q) ==
    LET g1 == GCD(Abs(x.n), q)
        g2 == GCD(Abs(p), x.d)
    IN  Rat((x.n \div g1) * (p \div g2), (x.d \div g2) * (q \div g1))

\* x * p / q for integers p, q with q > 0
RatScale(x, p, q) == (CHOOSE r \in {RatTimes(args[1], args[2], args[3]) : args \in {<<x, p, q>>}} : TRUE)

\* x * y > z * w for naturals x, z >= 0 and y, w > 0, without forming products
ProdGT(x, y, z, w) == (CHOOSE r \in {CmpFrac(args[1], args[2], args[3], args[4]) : args \in {<<x, w, z, y>>}} : TRUE) > 0

\* sum of f[k] for k in lo..hi
RECURSIVE SumRange(_, _, _)
SumRange(f, lo, hi) ==
    IF lo > hi THEN 0
    ELSE IF lo = hi THEN f[lo]
    ELSE LET mid == (lo + hi) \div 2
         IN  SumRange(f, lo, mid) + SumRange(f, mid + 1, hi)

\* sum of a sequence of integers (np.sum)
RECURSIVE SeqSum(_)
SeqSum(s) == IF s = <<>> THEN 0 ELSE s[1] + SeqSum(Tail(s))

\* the last k elements of a Python list (lst[-k:])
LastK(s, k) == SubSeq(s, Max2(1, Len(s) - k + 1), Len(s))

\* np.diff of a sequence
Diff(s) == [k \in 1..(Len(s) - 1) |-> s[k + 1] - s[k]]

\* int(c * fs) for a constant c = num/100 (or num/1000): truncation of a
\* non-negative product
IntFrac(num, den, rate) == (num * rate) \div den

-----------------------------------------------------------------------------
(* pan_tompkins_detector: adaptive thresholding with refractory period.    *)

ArrLen(a) == Cardinality(DOMAIN a)

\* number of entries of the array strictly below v / at most v
CountBelow(a, v) == Cardinality({k \in DOMAIN a : a[k] < v})

CountAtMost(a, v) == Cardinality({k \in DOMAIN a : a[k] <= v})

\* k-th smallest entry (k 0-based) of the array: np.sort(a)[k]
Sorted(a, k) ==
    CHOOSE v \in {a[j] : j \in DOMAIN a} : CountBelow(a, v) <= k /\ k < CountAtMost(a, v)

\* np.percentile(a, 98), linear interpolation between the closest ranks
Percentile98(a) ==
    LET N    == ArrLen(a)
        rank == 98 * (N - 1)
        lo   == rank \div 100
        rem  == rank % 100
        hi   == Min2(lo + 1, N - 1)
    IN  Rat(100 * Sorted(a, lo) + rem * (Sorted(a, hi) - Sorted(a, lo)), 100)

\* threshold = 0.6 * robust_max
InitialThreshold(integ) == RatScale(Percentile98(integ), 6, 10)

\* (mutant) a refractory period of 0.002 s, which truncates to 0 samples
refractory_samples_short(rate) == IntFrac(2, 1000, rate)

refractory_samples(rate) == IntFrac(2, 10, rate)

\* (mutant) the window of 0.8 s for 0.08 s
search_window_slip(rate) == IntFrac(8, 10, rate)

search_window(rate) == IntFrac(8, 100, rate)

\* np.mean of a non-empty list of integers
MeanOf(s) == Rat(SeqSum(s), Len(s))

\* threshold = avg_noise_peak + 0.40 * (avg_signal_peak - avg_noise_peak)
UpdatedThreshold(signal_peaks, noise_peaks) ==
    LET avg_signal_peak == MeanOf(LastK(signal_peaks, 8))
        avg_noise_peak  == IF noise_peaks # <<>> THEN MeanOf(LastK(noise_peaks, 8))
                           ELSE RatInt(0)
    IN  RatAdd(avg_noise_peak, RatScale(RatSub(avg_signal_peak, avg_noise_peak), 4, 10))

\* start_idx + np.argmax(signal_array[start_idx:end_idx]): lowest index of the maximum
ArgMaxIn(a, lo, hi) ==
    CHOOSE k \in lo..(hi - 1) :
        /\ \A j \in lo..(hi - 1) : a[j] <= a[k]
        /\ \A j \in lo..(k - 1) : a[j] < a[k]

\* N^2 * variance of the array: N * sum(x^2) - sum(x)^2
ScaledVar(a) ==
    LET N  == ArrLen(a)
        s1 == SumRange(a, 0, N - 1)
        s2 == SumRange([k \in DOMAIN a |-> a[k] * a[k]], 0, N - 1)
    IN  N * s2 - s1 * s1

\* (mutant) a fixed gate of 0.003 mV in place of half the standard deviation
AmplitudeGate_fixed(a, peak_val) == peak_val > 3

\* peak_val > np.std(signal_array) * 0.5
AmplitudeGate(a, peak_val) ==
    /\ peak_val > 0
    /\ LET x == 2 * peak_val * ArrLen(a)
       IN  x > ScaledVar(a) \div x

IsLocalMax(integ, k) == integ[k] > integ[k - 1] /\ integ[k] > integ[k + 1]

AboveThreshold(integ, k, thr) == RatGT(RatInt(integ[k]), thr)

\* len(r_peaks) == 0 or (i - r_peaks[-1]) > refractory_samples
RefractoryOk(r_peaks, k, rate) ==
    IF Len(r_peaks) = 0 THEN TRUE
    ELSE (k - r_peaks[Len(r_peaks)]) > refractory_samples(rate)

\* the R-peak the candidate at integrated-signal index k relocates to
ActualPeakIdx(sig, k, rate) ==
    LET start_idx == Max2(0, k - search_window(rate))
        end_idx   == Min2(ArrLen(sig), k + search_window(rate))
    IN  ArgMaxIn(sig, start_idx, end_idx)

\* (mutant) only a window that lies wholly inside the signal is searched
WindowNonEmpty_inside(sig, k, rate) ==
    k - search_window(rate) >= 0 /\ k + search_window(rate) <= ArrLen(sig)

\* len(local_signal) > 0
WindowNonEmpty(sig, k, rate) ==
    Max2(0, k - search_window(rate)) < Min2(ArrLen(sig), k + search_window(rate))

\* the candidate at k is accepted as an R-peak
Accepts(sig, integ, rate, d, k) ==
    /\ IsLocalMax(integ, k)
    /\ AboveThreshold(integ, k, d.threshold)
    /\ RefractoryOk(d.r_peaks, k, rate)
    /\ WindowNonEmpty(sig, k, rate)
    /\ AmplitudeGate(sig, sig[ActualPeakIdx(sig, k, rate)])

DetStart(integ) ==
    [i |-> 1, r_peaks |-> <<>>, signal_peaks |-> <<>>, noise_peaks |-> <<>>,
     threshold |-> InitialThreshold(integ),
     pc |-> IF 1 < ArrLen(integ) - 1 THEN "loop" ELSE "done"]

\* (mutant) a local maximum that is not accepted goes to noise_peaks, whether
\* or not it is above the threshold
DetIter_rejectIsNoise(sig, integ, rate, d) ==
    LET k == d.i
        next(i2, rp, sp, np, th) ==
            [i |-> i2, r_peaks |-> rp, signal_peaks |-> sp, noise_peaks |-> np,
             threshold |-> th,
             pc |-> IF i2 < ArrLen(integ) - 1 THEN "loop" ELSE "done"]
    IN  IF Accepts(sig, integ, rate, d, k)
        THEN LET sp2 == Append(d.signal_peaks, integ[k])
             IN  next(k + refractory_samples(rate),
                      Append(d.r_peaks, ActualPeakIdx(sig, k, rate)),
                      sp2, d.noise_peaks,
                      UpdatedThreshold(sp2, d.noise_peaks))
        ELSE IF IsLocalMax(integ, k)
        THEN next(k + 1, d.r_peaks, d.signal_peaks,
                  Append(d.noise_peaks, integ[k]), d.threshold)
        ELSE next(k + 1, d.r_peaks, d.signal_peaks, d.noise_peaks, d.threshold)

\* one iteration of "while i < len(integrated) - 1"
DetIter(sig, integ, rate, d) ==
    LET k == d.i
        next(i2, rp, sp, np, th) ==
            [i |-> i2, r_peaks |-> rp, signal_peaks |-> sp, noise_peaks |-> np,
             threshold |-> th,
             pc |-> IF i2 < ArrLen(integ) - 1 THEN "loop" ELSE "done"]
    IN  IF Accepts(sig, integ, rate, d, k)
        THEN LET sp2 == Append(d.signal_peaks, integ[k])
             IN  next(k + refractory_samples(rate),
                      Append(d.r_peaks, ActualPeakIdx(sig, k, rate)),
                      sp2, d.noise_peaks,
                      UpdatedThreshold(sp2, d.noise_peaks))
        ELSE IF IsLocalMax(integ, k) /\ ~AboveThreshold(integ, k, d.threshold)
        THEN next(k + 1, d.r_peaks, d.signal_peaks,
                  Append(d.noise_peaks, integ[k]), d.threshold)
        ELSE next(k + 1, d.r_peaks, d.signal_peaks, d.noise_peaks, d.threshold)

\* the iterations from d.i up to the next local maximum of the integrated
\* signal: each of them only does i += 1
DetSkip(integ, d) ==
    LET last == ArrLen(integ) - 1
        cand == {k \in d.i..(last - 1) : IsLocalMax(integ, k)}
    IN  IF cand = {} THEN [d EXCEPT !.i = Max2(d.i, last), !.pc = "done"]
        ELSE [d EXCEPT !.i = CHOOSE k \in cand : \A j \in cand : k <= j]

\* the loop run to its end
RECURSIVE DetRun(_, _, _, _)
DetRun(sig, integ, rate, d) ==
    IF d.pc = "done" THEN d
    ELSE LET e == DetSkip(integ, d)
         IN  IF e.pc = "done" THEN e
             ELSE DetRun(sig, integ, rate, DetIter(sig, integ, rate, e))

\* lines 239-256: detection_metrics of the accepted peaks (rr_std_s is carried
\* as its square rr_var_s2)
DetectionMetrics(r_peaks, rate, thr) ==
    IF Len(r_peaks) >= 2
    THEN LET rr == Diff(r_peaks)
             n  == Len(rr)
             S  == SeqSum(rr)
             Q  == SeqSum([k \in 1..n |-> rr[k] * rr[k]])
         IN  [num_peaks          |-> Len(r_peaks),
              avg_heart_rate_bpm |-> IF S > 0 THEN Rat(60 * n * rate, S) ELSE RatInt(0),
              avg_rr_interval_s  |-> Rat(S, n * rate),
              rr_var_s2          |-> Rat(n * Q - S * S, n * n * rate * rate),
              final_threshold    |-> thr]
    ELSE [num_peaks          |-> Len(r_peaks),
          avg_heart_rate_bpm |-> RatInt(0),
          final_threshold    |-> thr]

-----------------------------------------------------------------------------
(* Strings whose contents the code inspects ("in", String.includes), as    *)
(* character sequences.                                                    *)

Text ==
       ("Normal Sinus Rhythm" :>
           <<"N", "o", "r", "m", "a", "l", " ", "S", "i", "n", "u", "s", " ", "R", "h", "y", "t", "h", "m">>)
    @@ ("Bradycardia" :>
           <<"B", "r", "a", "d", "y", "c", "a", "r", "d", "i", "a">>)
    @@ ("Tachycardia" :>
           <<"T", "a", "c", "h", "y", "c", "a", "r", "d", "i", "a">>)
    @@ ("Borderline: Mild Irregularity" :>
           <<"B", "o", "r", "d", "e", "r", "l", "i", "n", "e", ":", " ", "M", "i", "l", "d", " ", "I", "r", "r", "e", "g", "u", "l", "a", "r", "i", "t", "y">>)
    @@ ("Flagged: Irregular Rhythm" :>
           <<"F", "l", "a", "g", "g", "e", "d", ":", " ", "I", "r", "r", "e", "g", "u", "l", "a", "r", " ", "R", "h", "y", "t", "h", "m">>)
    @@ ("Wide-Complex Tachycardia - URGENT EVALUATION" :>
           <<"W", "i", "d", "e", "-", "C", "o", "m", "p", "l", "e", "x", " ", "T", "a", "c", "h", "y", "c", "a", "r", "d", "i", "a", " ", "-", " ", "U", "R", "G", "E", "N", "T", " ", "E", "V", "A", "L", "U", "A", "T", "I", "O", "N">>)
    @@ ("Insufficient data" :>
           <<"I", "n", "s", "u", "f", "f", "i", "c", "i", "e", "n", "t", " ", "d", "a", "t", "a">>)
    @@ ("Wide-Complex Tachycardia" :>
           <<"W", "i", "d", "e", "-", "C", "o", "m", "p", "l", "e", "x", " ", "T", "a", "c", "h", "y", "c", "a", "r", "d", "i", "a">>)
    @@ ("Analyzing..." :>
           <<"A", "n", "a", "l", "y", "z", "i", "n", "g", ".", ".", ".">>)
    @@ ("Normal" :>
           <<"N", "o", "r", "m", "a", "l">>)
    @@ ("Wide-Complex" :>
           <<"W", "i", "d", "e", "-", "C", "o", "m", "p", "l", "e", "x">>)
    @@ ("Normal Sinus" :>
           <<"N", "o", "r", "m", "a", "l", " ", "S", "i", "n", "u", "s">>)
    @@ ("Irregular" :>
           <<"I", "r", "r", "e", "g", "u", "l", "a", "r">>)
    @@ ("Flagged" :>
           <<"F", "l", "a", "g", "g", "e", "d">>)

\* needle in hay (Python) / hay.includes(needle) (JavaScript)
Includes(hay, needle) ==
    LET h == Text[hay]
        n == Text[needle]
    IN  \E k \in 1..(Len(h) - Len(n) + 1) : SubSeq(h, k, k + Len(n) - 1) = n

-----------------------------------------------------------------------------
(* detect_arrhythmia: rhythm classification from the RR intervals.         *)

\* sum of squares of a sequence
SumSq(s) == SeqSum([k \in 1..Len(s) |-> s[k] * s[k]])

\* sum of 1/s[k]
RECURSIVE SumInv(_)
SumInv(s) == IF s = <<>> THEN RatInt(0) ELSE RatAdd(Rat(1, s[1]), SumInv(Tail(s)))

\* n * sum(x^2) - sum(x)^2 = n^2 * population variance of the sequence
NVar(s) == Len(s) * SumSq(s) - SeqSum(s) * SeqSum(s)

\* the rate tier: mean_hr < 60, > 100, else normal
RateTier(mean_hr) ==
    IF RatLT(mean_hr, RatInt(60)) THEN "Bradycardia"
    ELSE IF RatGT(mean_hr, RatInt(100)) THEN "Tachycardia"
    ELSE "Normal Sinus Rhythm"

\* (mutant) the borderline rule applied to every rate tier
IrregularityOverride_anyTier(rhythm_status, cv2) ==
    IF RatGE(cv2, Rat(9, 400)) THEN "Flagged: Irregular Rhythm"
    ELSE IF RatGE(cv2, Rat(4, 625)) THEN "Borderline: Mild Irregularity"
    ELSE rhythm_status

\* lines 289-293: cv >= 0.15, cv >= 0.08 (cv >= 0, so compared by its square)
IrregularityOverride(rhythm_status, cv2) ==
    IF RatGE(cv2, Rat(9, 400)) THEN "Flagged: Irregular Rhythm"
    ELSE IF RatGE(cv2, Rat(4, 625)) /\ Includes(rhythm_status, "Normal")
         THEN "Borderline: Mild Irregularity"
    ELSE rhythm_status

\* returns the label and the metrics; cv and std_rr_ms are carried as squares
detect_arrhythmia(r_peaks, rate) ==
    IF Len(r_peaks) < 3
    THEN [rhythm_status |-> "Insufficient data",
          metrics |-> [cv_sq |-> RatInt(0), mean_hr |-> RatInt(0)]]
    ELSE LET rr      == Diff(r_peaks)
             n       == Len(rr)
             S       == SeqSum(rr)
             cv2     == IF S > 0 THEN Rat(NVar(rr), S * S) ELSE RatInt(0)
             mean_hr == RatScale(SumInv(rr), 60 * rate, n)
         IN  [rhythm_status |-> IrregularityOverride(RateTier(mean_hr), cv2),
              metrics |-> [cv_sq        |-> cv2,
                           mean_hr      |-> mean_hr,
                           mean_rr_ms   |-> Rat(1000 * S, n * rate),
                           std_rr_ms_sq |-> RatScale(RatScale(Rat(NVar(rr), n * n),
                                                              1000, rate), 1000, rate)]]

-----------------------------------------------------------------------------
(* calculate_hrv_metrics: time-domain HRV with the 300-1500 ms RR filter.  *)

\* (mutant) the filter with inclusive bounds
IsNN_inclusive(d, rate) == 1000 * d >= 300 * rate /\ 1000 * d <= 1500 * rate

\* (rr_ms > 300) & (rr_ms < 1500) for rr_ms = d / fs * 1000
IsNN(d, rate) == 1000 * d > 300 * rate /\ 1000 * d < 1500 * rate

\* rr[valid_indices], in samples
RECURSIVE NNIntervals(_, _)
NNIntervals(rr, rate) ==
    IF rr = <<>> THEN <<>>
    ELSE IF IsNN(rr[1], rate) THEN <<rr[1]>> \o NNIntervals(Tail(rr), rate)
    ELSE NNIntervals(Tail(rr), rate)

\* x (in samples^2) converted to ms^2
ToMsSq(x, rate) == RatScale(RatScale(x, 1000, rate), 1000, rate)

\* sdnn < 20, sdnn < 100 (by the squares)
HrvInterpretation(sdnn2) ==
    IF RatLT(sdnn2, RatInt(400)) THEN "Low HRV (Reduced variability)"
    ELSE IF RatLT(sdnn2, RatInt(10000)) THEN "Normal range for short-term recording"
    ELSE "High Variability"

\* sdnn, rmssd, sdsd and cv_percent are carried as their squares
calculate_hrv_metrics(r_peaks, rate) ==
    IF Len(r_peaks) < 3
    THEN [sdnn_ms_sq |-> RatInt(0), rmssd_ms_sq |-> RatInt(0),
          pnn50_percent |-> RatInt(0), mean_nn_ms |-> RatInt(0),
          cv_percent_sq |-> RatInt(0), hrv_interpretation |-> "Insufficient data"]
    ELSE LET rr == Diff(r_peaks)
             nn == NNIntervals(rr, rate)
             m  == Len(nn)
         IN  IF m < 2
             THEN [sdnn_ms_sq |-> RatInt(0), rmssd_ms_sq |-> RatInt(0),
                   pnn50_percent |-> RatInt(0),
                   hrv_interpretation |-> "High noise level - unstable RR"]
             ELSE LET diff_nn == Diff(nn)
                      sdnn2   == ToMsSq(Rat(NVar(nn), m * (m - 1)), rate)
                      nn50    == Cardinality({k \in 1..Len(diff_nn) :
                                                 1000 * Abs(diff_nn[k]) > 50 * rate})
                      mean_nn == Rat(1000 * SeqSum(nn), m * rate)
                  IN  [sdnn_ms_sq    |-> sdnn2,
                       rmssd_ms_sq   |-> ToMsSq(Rat(SumSq(diff_nn), Len(diff_nn)), rate),
                       sdsd_ms_sq    |-> ToMsSq(Rat(NVar(diff_nn),
                                                    Len(diff_nn) * Len(diff_nn)), rate),
                       pnn50_percent |-> Rat(100 * nn50, Len(diff_nn)),
                       pnn20_percent |-> RatInt(0),
                       mean_nn_ms    |-> mean_nn,
                       cv_percent_sq |-> RatScale(Rat(NVar(nn), SeqSum(nn) * SeqSum(nn)),
                                                  100 * 100 * m, m - 1),
                       nn_count      |-> m,
                       ectopic_removed |-> Len(rr) - m,
                       hrv_interpretation |-> HrvInterpretation(sdnn2)]

-----------------------------------------------------------------------------
(* measure_qrs_width: Q-onset to S-offset by slope analysis.               *)

\* the slope limit 0.005 mV, in units of 0.001 mV
SlopeLimit == 5

\* lowest index in lo..hi-1 of the minimum of the array (np.argmin of a slice)
ArgMinIn(a, lo, hi) ==
    CHOOSE k \in lo..(hi - 1) :
        /\ \A j \in lo..(hi - 1) : a[j] >= a[k]
        /\ \A j \in lo..(k - 1) : a[j] > a[k]

\* (mutant) the else clause of the loop runs after a match as well
QOnsetScan_elseAlways(sig, start, r_local, i) == 0

\* lines 335-343, from loop index i downwards: the first i < r_local - 2 with
\* a flat slope, 0 when the loop runs out (for ... else)
RECURSIVE QOnsetScan(_, _, _, _)
QOnsetScan(sig, start, r_local, i) ==
    IF i < 1 THEN 0
    ELSE IF i < r_local - 2 /\ Abs(sig[start + i] - sig[start + i - 1]) < SlopeLimit
    THEN i
    ELSE QOnsetScan(sig, start, r_local, i - 1)

\* lines 350-355, from loop index i upwards: the first flat slope, else len - 1
RECURSIVE SOffsetScan(_, _, _, _)
SOffsetScan(sig, start, seglen, i) ==
    IF i >= seglen - 1 THEN seglen - 1
    ELSE IF Abs(sig[start + i + 1] - sig[start + i]) < SlopeLimit THEN i
    ELSE SOffsetScan(sig, start, seglen, i + 1)

pre_window(rate) == IntFrac(5, 100, rate)

\* (mutant) the segment reaches 0.2 s past the R-peak
post_window_long(rate) == IntFrac(2, 10, rate)

post_window(rate) == IntFrac(8, 100, rate)

QrsStart(sig, r_idx, rate) == Max2(0, r_idx - pre_window(rate))

QrsEnd(sig, r_idx, rate) == Min2(ArrLen(sig), r_idx + post_window(rate))

QOnset(sig, r_idx, rate) ==
    LET start == QrsStart(sig, r_idx, rate)
    IN  QOnsetScan(sig, start, r_idx - start, r_idx - start)

SOffset(sig, r_idx, rate) ==
    LET start   == QrsStart(sig, r_idx, rate)
        seglen  == QrsEnd(sig, r_idx, rate) - start
        s_point == ArgMinIn(sig, r_idx, start + seglen) - start
    IN  SOffsetScan(sig, start, seglen, s_point)

\* s_offset - q_onset in samples (width_ms = this * 1000 / fs)
WidthSamples(sig, r_idx, rate) == SOffset(sig, r_idx, rate) - QOnset(sig, r_idx, rate)

\* (mutant) the physiological range filter left out
WidthKept_noFilter(sig, r_idx, rate) ==
    QrsEnd(sig, r_idx, rate) - QrsStart(sig, r_idx, rate) >= 5

\* the segment is long enough and 40 < width_ms < 200
WidthKept(sig, r_idx, rate) ==
    /\ QrsEnd(sig, r_idx, rate) - QrsStart(sig, r_idx, rate) >= 5
    /\ 1000 * WidthSamples(sig, r_idx, rate) > 40 * rate
    /\ 1000 * WidthSamples(sig, r_idx, rate) < 200 * rate

\* qrs_widths, in samples
RECURSIVE QrsWidths(_, _, _)
QrsWidths(sig, r_peaks, rate) ==
    IF r_peaks = <<>> THEN <<>>
    ELSE IF WidthKept(sig, r_peaks[1], rate)
    THEN <<WidthSamples(sig, r_peaks[1], rate)>> \o QrsWidths(sig, Tail(r_peaks), rate)
    ELSE QrsWidths(sig, Tail(r_peaks), rate)

QrsInterpretation(mean_qrs) ==
    IF RatGE(mean_qrs, RatInt(120)) THEN "Wide QRS (BBB/Ventricular)"
    ELSE IF RatLE(mean_qrs, RatInt(60)) THEN "Narrow (Normal)"
    ELSE "Normal"

\* (mutant) the fallback of the empty-widths case also for fewer than 2 peaks
measure_qrs_width_nofloor(sig, r_peaks, rate) ==
    LET w == QrsWidths(sig, r_peaks, rate)
    IN  IF w = <<>>
        THEN [mean_qrs_ms |-> RatInt(80), std_qrs_ms_sq |-> RatInt(0),
              qrs_interpretation |-> "Could not detect"]
        ELSE [mean_qrs_ms |-> Rat(1000 * SeqSum(w), Len(w) * rate),
              std_qrs_ms_sq |-> ToMsSq(Rat(NVar(w), Len(w) * Len(w)), rate),
              qrs_interpretation |-> QrsInterpretation(Rat(1000 * SeqSum(w), Len(w) * rate))]

\* std_qrs_ms is carried as its square
measure_qrs_width(sig, r_peaks, rate) ==
    IF Len(r_peaks) < 2
    THEN [mean_qrs_ms |-> RatInt(0), std_qrs_ms_sq |-> RatInt(0),
          qrs_interpretation |-> "Insufficient data"]
    ELSE LET w == QrsWidths(sig, r_peaks, rate)
         IN  IF w = <<>>
             THEN [mean_qrs_ms |-> RatInt(80), std_qrs_ms_sq |-> RatInt(0),
                   qrs_interpretation |-> "Could not detect"]
             ELSE LET mean_qrs == Rat(1000 * SeqSum(w), Len(w) * rate)
                  IN  [mean_qrs_ms |-> mean_qrs,
                       std_qrs_ms_sq |-> ToMsSq(Rat(NVar(w), Len(w) * Len(w)), rate),
                       qrs_interpretation |-> QrsInterpretation(mean_qrs)]

-----------------------------------------------------------------------------
(* calculate_qt_interval: tangent method and Bazett's correction.          *)

t_start_offset(rate) == IntFrac(4, 100, rate)

t_end_offset(rate) == IntFrac(45, 100, rate)

slope_search_len(rate) == IntFrac(1, 10, rate)

q_start_offset(rate) == IntFrac(3, 100, rate)

\* t_start + np.argmax(t_window)
TPeakIdx(sig, r_idx, rate) ==
    ArgMaxIn(sig, r_idx + t_start_offset(rate), r_idx + t_end_offset(rate))

\* len(slope_search)
SlopeSearchLen(sig, r_idx, rate) ==
    Min2(ArrLen(sig), TPeakIdx(sig, r_idx, rate) + slope_search_len(rate))
        - TPeakIdx(sig, r_idx, rate)

\* slopes = np.diff(slope_search), as an array over 0..len-2
Slopes(sig, r_idx, rate) ==
    LET t == TPeakIdx(sig, r_idx, rate)
    IN  [k \in 0..(SlopeSearchLen(sig, r_idx, rate) - 2) |-> sig[t + k + 1] - sig[t + k]]

\* the T-wave window lies inside the signal and the slope search has 2 samples
QtMeasurable(sig, r_idx, rate) ==
    /\ r_idx + t_end_offset(rate) < ArrLen(sig)
    /\ r_idx + t_start_offset(rate) < r_idx + t_end_offset(rate)
    /\ SlopeSearchLen(sig, r_idx, rate) >= 2

\* qt_ms of the beat at r_idx, for a non-zero steepest slope
QtMs(sig, r_idx, rate) ==
    LET sl            == Slopes(sig, r_idx, rate)
        min_slope_idx == ArgMinIn(sl, 0, ArrLen(sl))
        max_slope     == sl[min_slope_idx]
        slope_point   == TPeakIdx(sig, r_idx, rate) + min_slope_idx
        q_start_idx   == r_idx - q_start_offset(rate)
    IN  RatScale(Rat((slope_point - q_start_idx) * max_slope - sig[slope_point], max_slope),
                 1000, rate)

\* (mutant) the physiological range filter left out
QtKept_noRange(sig, r_idx, rate) ==
    /\ QtMeasurable(sig, r_idx, rate)
    /\ LET sl == Slopes(sig, r_idx, rate)
       IN  sl[ArgMinIn(sl, 0, ArrLen(sl))] # 0

\* the beat contributes a QT value: measurable, max_slope # 0, 200 < qt_ms < 600
QtKept(sig, r_idx, rate) ==
    /\ QtMeasurable(sig, r_idx, rate)
    /\ LET sl == Slopes(sig, r_idx, rate)
       IN  sl[ArgMinIn(sl, 0, ArrLen(sl))] # 0
    /\ RatGT(QtMs(sig, r_idx, rate), RatInt(200))
    /\ RatLT(QtMs(sig, r_idx, rate), RatInt(600))

\* qt_ms_list over r_peaks[0 .. len-2]
RECURSIVE QtList(_, _, _)
QtList(sig, r_peaks, rate) ==
    IF Len(r_peaks) < 2 THEN <<>>
    ELSE IF QtKept(sig, r_peaks[1], rate)
    THEN <<QtMs(sig, r_peaks[1], rate)>> \o QtList(sig, Tail(r_peaks), rate)
    ELSE QtList(sig, Tail(r_peaks), rate)

RECURSIVE RatSum(_)
RatSum(s) == IF s = <<>> THEN RatInt(0) ELSE RatAdd(s[1], RatSum(Tail(s)))

\* mean_qt / sqrt(mean_rr) > c, for mean_qt >= 0, mean_rr > 0 and c > 0
QtcGT(q, c) ==
    LET y == RatScale(q.mean_qt, 1, c)
    IN  ProdGT(y.n * y.n, q.mean_rr.d, q.mean_rr.n, y.d * y.d)

\* mean_qt / sqrt(mean_rr) < c
QtcLT(q, c) ==
    LET y == RatScale(q.mean_qt, 1, c)
    IN  ProdGT(q.mean_rr.n, y.d * y.d, y.n * y.n, q.mean_rr.d)

\* (mutant) 'Normal' up to 480 ms
QtInterpretation_wideNormal(q) ==
    IF QtcLT(q, 480) THEN "Normal"
    ELSE IF QtcLT(q, 500) THEN "Prolonged QTc"
    ELSE "High Risk (Long QT)"

QtInterpretation(q) ==
    IF QtcLT(q, 450) THEN "Normal"
    ELSE IF QtcLT(q, 500) THEN "Prolonged QTc"
    ELSE "High Risk (Long QT)"

\* mean_qtc_bazett_ms is carried as the pair it is computed from:
\* qtc = mean_qt / sqrt(mean_rr)
calculate_qt_interval(sig, r_peaks, rate) ==
    IF Len(r_peaks) < 3
    THEN [mean_qt_ms |-> RatInt(0),
          mean_qtc_bazett_ms |-> [mean_qt |-> RatInt(0), mean_rr |-> RatInt(1)],
          qt_risk_flag |-> FALSE, qt_interpretation |-> "N/A"]
    ELSE LET qt_ms_list == QtList(sig, r_peaks, rate)
             mean_qt    == IF qt_ms_list # <<>>
                           THEN RatScale(RatSum(qt_ms_list), 1, Len(qt_ms_list))
                           ELSE RatInt(0)
             rr         == Diff(r_peaks)
             mean_rr    == Rat(SeqSum(rr), Len(rr) * rate)
             qtc        == IF mean_rr.n > 0
                           THEN [mean_qt |-> mean_qt, mean_rr |-> mean_rr]
                           ELSE [mean_qt |-> RatInt(0), mean_rr |-> RatInt(1)]
         IN  [mean_qt_ms |-> mean_qt,
              mean_qtc_bazett_ms |-> qtc,
              qt_risk_flag |-> QtcGT(qtc, 470),
              qt_interpretation |-> QtInterpretation(qtc)]

-----------------------------------------------------------------------------
(* process_ecg_complete: the pipeline and the clinical interpretation.     *)

\* (mutant) any measured or fallback width counts as wide
WideQrs_measured(qrs_metrics) == RatGT(qrs_metrics.mean_qrs_ms, RatInt(40))

WideQrs(qrs_metrics) == RatGT(qrs_metrics.mean_qrs_ms, RatInt(120))

FastRate(detection_metrics) == RatGT(detection_metrics.avg_heart_rate_bpm, RatInt(100))

LowHrv(hrv_metrics) ==
    /\ RatGT(hrv_metrics.sdnn_ms_sq, RatInt(0))
    /\ RatLT(hrv_metrics.sdnn_ms_sq, RatInt(50 * 50))

\* (mutant) the override on a wide QRS alone
EnhancedRhythm_anyRate(rhythm_status, qrs_metrics, detection_metrics) ==
    IF WideQrs(qrs_metrics)
    THEN "Wide-Complex Tachycardia - URGENT EVALUATION"
    ELSE rhythm_status

\* (mutant) the override spelled as the UI spells it
EnhancedRhythm_uiLabel(rhythm_status, qrs_metrics, detection_metrics) ==
    IF WideQrs(qrs_metrics) /\ FastRate(detection_metrics)
    THEN "Wide-Complex Tachycardia"
    ELSE rhythm_status

\* lines 547-552: enhanced_rhythm
EnhancedRhythm(rhythm_status, qrs_metrics, detection_metrics) ==
    IF WideQrs(qrs_metrics) /\ FastRate(detection_metrics)
    THEN "Wide-Complex Tachycardia - URGENT EVALUATION"
    ELSE rhythm_status

\* lines 548-561: warnings
ClinicalWarnings(qrs_metrics, qt_metrics, hrv_metrics, detection_metrics) ==
    (IF WideQrs(qrs_metrics)
     THEN IF FastRate(detection_metrics)
          THEN <<"Wide QRS with tachycardia requires immediate assessment">>
          ELSE <<qrs_metrics.qrs_interpretation>>
     ELSE <<>>)
    \o (IF qt_metrics.qt_risk_flag THEN <<qt_metrics.qt_interpretation>> ELSE <<>>)
    \o (IF LowHrv(hrv_metrics)
        THEN <<"Low HRV detected - consider cardiac risk assessment">>
        ELSE <<>>)

\* the result dict, for the cleaned signal sig and its integrated signal integ
\* (preprocess_ecg and the detector's filter cascade are not modelled)
process_ecg_complete(sig, integ, rate) ==
    LET d                 == DetRun(sig, integ, rate, DetStart(integ))
        r_peaks           == d.r_peaks
        detection_metrics == DetectionMetrics(r_peaks, rate, d.threshold)
        arr               == detect_arrhythmia(r_peaks, rate)
        qrs_metrics       == measure_qrs_width(sig, r_peaks, rate)
        qt_metrics        == calculate_qt_interval(sig, r_peaks, rate)
        hrv_metrics       == calculate_hrv_metrics(r_peaks, rate)
        enhanced_rhythm   == EnhancedRhythm(arr.rhythm_status, qrs_metrics, detection_metrics)
        warnings          == ClinicalWarnings(qrs_metrics, qt_metrics, hrv_metrics,
                                              detection_metrics)
    IN  [status             |-> "processed",
         r_peak_indices     |-> r_peaks,
         metrics            |-> [bpm              |-> detection_metrics.avg_heart_rate_bpm,
                                 rhythmStatus     |-> enhanced_rhythm,
                                 sdnn_sq          |-> hrv_metrics.sdnn_ms_sq,
                                 rmssd_sq         |-> hrv_metrics.rmssd_ms_sq,
                                 qtcBazett        |-> qt_metrics.mean_qtc_bazett_ms,
                                 qrsWidth         |-> qrs_metrics.mean_qrs_ms,
                                 pnn50            |-> hrv_metrics.pnn50_percent,
                                 clinicalWarnings |-> warnings],
         detection_metrics  |-> detection_metrics,
         arrhythmia_metrics |-> arr.metrics,
         qrs_metrics        |-> qrs_metrics,
         qt_metrics         |-> qt_metrics,
         hrv_metrics        |-> hrv_metrics,
         rhythm_status      |-> enhanced_rhythm,
         clinical_warnings  |-> warnings,
         sample_rate        |-> rate,
         num_samples        |-> ArrLen(sig)]

-----------------------------------------------------------------------------
(* ECGProcessor.transformResults: the PatientMetrics the UI renders.       *)

\* (mutant) the core's label passed through unchanged
normalizeRhythmStatus_identity(label) == label

\* ECGProcessor.normalizeRhythmStatus
normalizeRhythmStatus(label) ==
    IF Includes(label, "Wide-Complex") THEN "Wide-Complex Tachycardia"
    ELSE IF Includes(label, "Normal Sinus") THEN "Normal Sinus Rhythm"
    ELSE IF Includes(label, "Bradycardia") THEN "Bradycardia"
    ELSE IF Includes(label, "Tachycardia") THEN "Tachycardia"
    ELSE IF Includes(label, "Irregular") \/ Includes(label, "Flagged")
         THEN "Flagged: Irregular Rhythm"
    ELSE "Analyzing..."

\* "x || undefined" for a numeric x
OrUndefined(x) == IF x.n = 0 THEN "undefined" ELSE x

transformResults(pythonResults) ==
    [status           |-> "rendered",
     bpm              |-> pythonResults.detection_metrics.avg_heart_rate_bpm,
     rhythmStatus     |-> normalizeRhythmStatus(pythonResults.rhythm_status),
     qrsWidth         |-> OrUndefined(pythonResults.qrs_metrics.mean_qrs_ms),
     qtcBazett        |-> IF pythonResults.qt_metrics.mean_qtc_bazett_ms.mean_qt.n = 0
                          THEN "undefined"
                          ELSE pythonResults.qt_metrics.mean_qtc_bazett_ms,
     sdnn_sq          |-> OrUndefined(pythonResults.hrv_metrics.sdnn_ms_sq),
     rmssd_sq         |-> OrUndefined(pythonResults.hrv_metrics.rmssd_ms_sq),
     pnn50            |-> OrUndefined(pythonResults.hrv_metrics.pnn50_percent),
     clinicalWarnings |-> pythonResults.clinical_warnings]

-----------------------------------------------------------------------------
(* Inputs of the detector runs: up to MaxEvents strict local maxima of the *)
(* integrated signal, each with a spike of the cleaned signal somewhere in *)
(* its relocation window.                                                  *)

MaxEvents == 2

\* sample rates of the modelled recordings (Hz)
SampleRates == {140}

\* sample rates of the detector runs: 0.08 * fs is 10.56 at 132 Hz, 11.2 at 140 Hz
DetSampleRates == SampleRates \cup {132}

\* distance of a local maximum from the previous one (from index 0 for the first)
DetGaps == {5, 29, 39}

\* value of the integrated signal at the local maximum
DetHeights == {1, 3}

\* position of the cleaned-signal spike relative to the local maximum
DetOffsets == {-11, 0, 10}

\* amplitude of the cleaned-signal spike
DetAmps == {1, 40}

\* samples after the last local maximum
DetTails == {3, 15}

DetEvent == [gap : DetGaps, h : DetHeights, off : DetOffsets, amp : DetAmps]

DetEventSeqs == UNION {[1..n -> DetEvent] : n \in 0..MaxEvents}

EventPos(ev, k) == SeqSum([j \in 1..k |-> ev[j].gap])

EventLen(ev, tail) == EventPos(ev, Len(ev)) + tail

EventIntegrated(ev, tail) ==
    [x \in 0..(EventLen(ev, tail) - 1) |->
        LET at == {k \in 1..Len(ev) : EventPos(ev, k) = x}
        IN  IF at = {} THEN 0 ELSE ev[CHOOSE k \in at : TRUE].h]

EventSignal(ev, tail) ==
    [x \in 0..(EventLen(ev, tail) - 1) |->
        LET at == {k \in 1..Len(ev) : EventPos(ev, k) + ev[k].off = x}
        IN  IF at = {} THEN 0
            ELSE ev[CHOOSE k \in at : \A j \in at : ev[j].amp <= ev[k].amp].amp]

NoResults == [status |-> "none"]

NoMetrics == [status |-> "none"]

DetInit ==
    /\ fs \in DetSampleRates
    /\ \E ev \in DetEventSeqs, tail \in DetTails :
          /\ integrated = EventIntegrated(ev, tail)
          /\ signal_array = EventSignal(ev, tail)
    /\ det = DetStart(integrated)
    /\ r_peak_indices = <<>>
    /\ results = NoResults
    /\ metrics = NoMetrics
    /\ ProcessorConstructed

\* an iteration that appends an R-peak and skips the refractory period
DetAccept ==
    /\ det.pc = "loop"
    /\ Accepts(signal_array, integrated, fs, det, det.i)
    /\ det' = DetIter(signal_array, integrated, fs, det)
    /\ UNCHANGED <<fs, signal_array, integrated, r_peak_indices, results, metrics, workerVars, mainVars, serviceVars>>

\* an iteration at a local maximum that is not above the threshold
DetNoise ==
    /\ det.pc = "loop"
    /\ IsLocalMax(integrated, det.i)
    /\ ~AboveThreshold(integrated, det.i, det.threshold)
    /\ det' = DetIter(signal_array, integrated, fs, det)
    /\ UNCHANGED <<fs, signal_array, integrated, r_peak_indices, results, metrics, workerVars, mainVars, serviceVars>>

\* any other iteration: i += 1
DetAdvance ==
    /\ det.pc = "loop"
    /\ ~Accepts(signal_array, integrated, fs, det, det.i)
    /\ ~(IsLocalMax(integrated, det.i) /\ ~AboveThreshold(integrated, det.i, det.threshold))
    /\ det' = DetIter(signal_array, integrated, fs, det)
    /\ UNCHANGED <<fs, signal_array, integrated, r_peak_indices, results, metrics, workerVars, mainVars, serviceVars>>

\* the loop has ended: r_peaks and detection_metrics are returned
DetReturn ==
    /\ det.pc = "done"
    /\ det' = [det EXCEPT !.pc = "returned"]
    /\ r_peak_indices' = det.r_peaks
    /\ results' = [status |-> "detected",
                   r_peak_indices |-> det.r_peaks,
                   detection_metrics |-> DetectionMetrics(det.r_peaks, fs, det.threshold)]
    /\ UNCHANGED <<fs, signal_array, integrated, metrics, workerVars, mainVars, serviceVars>>

DetNext == DetAccept \/ DetNoise \/ DetAdvance \/ DetReturn

SpecDetector == DetInit /\ [][DetNext]_vars

-----------------------------------------------------------------------------
(* Claims about the detector.                                              *)

StrictlyIncreasing(s) == \A k \in 1..(Len(s) - 1) : s[k] < s[k + 1]

InRange(s, N) == \A k \in 1..Len(s) : 0 <= s[k] /\ s[k] < N

\* C1: the R-peak index list the detector returns (and the list it holds at
\* every iteration) is strictly increasing and every index lies in
\* [0, len(samples)).
C1_PeaksIncreasingInRange ==
    /\ StrictlyIncreasing(det.r_peaks)
    /\ InRange(det.r_peaks, ArrLen(signal_array))
    /\ results.status = "detected" =>
          /\ StrictlyIncreasing(results.r_peak_indices)
          /\ InRange(results.r_peak_indices, ArrLen(signal_array))

\* two peaks were returned, the first relocated to the right of its candidate
\* and the second to the left of its own
C1_Witness ==
    /\ results.status = "detected"
    /\ Len(results.r_peak_indices) = 2
    /\ results.r_peak_indices[2] - results.r_peak_indices[1] < refractory_samples(fs)

\* C2: any two consecutive R-peak indices returned by the detector differ by
\* at least the refractory period int(0.2 * fs).
C2_GapsAtLeastRefractory ==
    results.status = "detected" =>
        \A k \in 1..(Len(results.r_peak_indices) - 1) :
            results.r_peak_indices[k + 1] - results.r_peak_indices[k]
                >= refractory_samples(fs)

\* the detector inputs with the local maxima 5 or 29 samples apart, spikes of
\* amplitude 40 at the maximum or 11 samples before it, and a tail of 3 samples
DetFairInit ==
    /\ fs \in SampleRates
    /\ \E ev \in {e \in DetEventSeqs :
                     \A k \in 1..Len(e) : e[k].gap < 39 /\ e[k].off <= 0 /\ e[k].amp = 40} :
          /\ integrated = EventIntegrated(ev, 3)
          /\ signal_array = EventSignal(ev, 3)
    /\ det = DetStart(integrated)
    /\ r_peak_indices = <<>>
    /\ results = NoResults
    /\ metrics = NoMetrics
    /\ ProcessorConstructed

\* one iteration of the while loop, whichever branch it takes
DetLoopStep ==
    /\ det.pc = "loop"
    /\ det' = DetIter(signal_array, integrated, fs, det)
    /\ UNCHANGED <<fs, signal_array, integrated, r_peak_indices, results, metrics, workerVars, mainVars, serviceVars>>

\* the Python interpreter runs the loop, and then the return, without pause
SpecDetectorFair ==
    DetFairInit /\ [][DetNext]_vars /\ WF_vars(DetLoopStep) /\ WF_vars(DetReturn)

\* an iteration of the loop moves i forward
IndexAdvances == det.pc = "loop" => det'.i > det.i

\* while the loop runs i is a valid interior index of the integrated signal
IndexInside == det.pc = "loop" => (1 <= det.i /\ det.i < ArrLen(integrated) - 1)

\* the candidate at k passes the initial threshold and the amplitude gate (the
\* refractory test passes while r_peaks is empty)
PassesAtStart(k) ==
    /\ integrated[k] > integrated[k - 1]
    /\ integrated[k] > integrated[k + 1]
    /\ RatGT(RatInt(integrated[k]), RatScale(Percentile98(integrated), 6, 10))
    /\ LET lo == Max2(0, k - IntFrac(8, 100, fs))
           hi == Min2(ArrLen(signal_array), k + IntFrac(8, 100, fs))
       IN  /\ lo < hi
           /\ \E p \in lo..(hi - 1) :
                 /\ \A q \in lo..(hi - 1) : signal_array[q] <= signal_array[p]
                 /\ signal_array[p] > 0
                 /\ 4 * signal_array[p] * signal_array[p] * ArrLen(signal_array)
                        * ArrLen(signal_array) > ScaledVar(signal_array)

NoCandidatePasses == \A k \in 1..(ArrLen(integrated) - 2) : ~PassesAtStart(k)

EmptyWhenNonePasses ==
    (results.status = "detected" /\ NoCandidatePasses) =>
        /\ results.r_peak_indices = <<>>
        /\ results.detection_metrics.num_peaks = 0
        /\ results.detection_metrics.avg_heart_rate_bpm = RatInt(0)

\* C13: the detector always terminates and never fails: i strictly increases
\* on every iteration of the thresholding loop (by 1, or by the refractory skip
\* after an accepted peak), the loop ends and the function returns, and the
\* R-peak list returned is empty when no candidate passes threshold, refractory
\* test and amplitude gate.
C13_DetectorTerminates ==
    /\ [][IndexAdvances]_vars
    /\ [](IndexInside /\ EmptyWhenNonePasses)
    /\ <>(det.pc = "returned")

\* the detector returned an empty list for a signal whose integrated signal has
\* a local maximum above the threshold: the amplitude gate rejected it
C13_Witness ==
    /\ results.status = "detected"
    /\ results.r_peak_indices = <<>>
    /\ NoCandidatePasses
    /\ \E k \in 1..(ArrLen(integrated) - 2) :
          IsLocalMax(integrated, k) /\ AboveThreshold(integrated, k, InitialThreshold(integrated))

\* the constants alpha the samples are multiplied by
ScaleFactors == {2, 5}

\* the cleaned signal of the samples times alpha: the filters are linear
ScaledSignal(sig, alpha) == [k \in DOMAIN sig |-> alpha * sig[k]]

\* its integrated signal: band-pass and derivative are linear, the squaring
\* turns alpha into alpha^2, the moving-window integration is linear
ScaledIntegrated(integ, alpha) == [k \in DOMAIN integ |-> alpha * alpha * integ[k]]

\* the detector run on the samples times alpha
DetOfScaled(alpha) ==
    DetRun(ScaledSignal(signal_array, alpha), ScaledIntegrated(integrated, alpha), fs,
           DetStart(ScaledIntegrated(integrated, alpha)))

\* C14: multiplying the samples by a constant alpha > 0 changes neither the
\* R-peak indices the detector returns nor the mean BPM.
C14_ScaleInvariantPeaks ==
    results.status = "detected" =>
        \A alpha \in ScaleFactors :
            /\ DetOfScaled(alpha).r_peaks = results.r_peak_indices
            /\ DetectionMetrics(DetOfScaled(alpha).r_peaks, fs,
                                DetOfScaled(alpha).threshold).avg_heart_rate_bpm
                   = results.detection_metrics.avg_heart_rate_bpm

\* two peaks were returned, and on the samples times 5 the detector returns
\* the same two with a final threshold 25 times the one of the original run
C14_Witness ==
    /\ results.status = "detected"
    /\ Len(results.r_peak_indices) = 2
    /\ results.detection_metrics.avg_heart_rate_bpm.n > 0
    /\ DetOfScaled(5).r_peaks = results.r_peak_indices
    /\ DetOfScaled(5).threshold = RatScale(det.threshold, 25, 1)
    /\ det.threshold.n > 0

\* integrated[i] is a strict local maximum / is above the current threshold
AtLocalMax == integrated[det.i] > integrated[det.i - 1] /\ integrated[det.i] > integrated[det.i + 1]

OverThreshold == integrated[det.i] * det.threshold.d > det.threshold.n

\* what an iteration of the loop does to noise_peaks, signal_peaks and threshold
NoiseBookkeeping ==
    det.pc = "loop" =>
        /\ det'.noise_peaks =
               IF AtLocalMax /\ ~OverThreshold
               THEN Append(det.noise_peaks, integrated[det.i])
               ELSE det.noise_peaks
        /\ (AtLocalMax /\ OverThreshold /\ det'.r_peaks = det.r_peaks) =>
               /\ det'.signal_peaks = det.signal_peaks
               /\ det'.noise_peaks = det.noise_peaks
        /\ det'.threshold # det.threshold =>
               /\ Len(det'.r_peaks) = Len(det.r_peaks) + 1
               /\ det'.signal_peaks = Append(det.signal_peaks, integrated[det.i])

\* C17: in the thresholding loop a strict local maximum of the integrated
\* signal is appended to noise_peaks if and only if its value is not above the
\* current threshold; a local maximum above the threshold that the refractory
\* test or the amplitude gate rejects is appended to neither signal_peaks nor
\* noise_peaks; the threshold changes only when a peak is accepted.
C17_NoisePeaksOnlyBelowThreshold == [][NoiseBookkeeping]_vars

\* one peak was accepted and a later local maximum above the threshold, reached
\* by the loop, was rejected by the refractory test: it is in neither list
C17_Witness ==
    /\ Len(det.r_peaks) = 1
    /\ Len(det.signal_peaks) = 1
    /\ det.noise_peaks = <<>>
    /\ \E k1, k2 \in 1..(ArrLen(integrated) - 2) :
          /\ IsLocalMax(integrated, k1)
          /\ IsLocalMax(integrated, k2)
          /\ k2 - k1 >= refractory_samples(fs)
          /\ k2 - det.r_peaks[1] <= refractory_samples(fs)
          /\ AboveThreshold(integrated, k2, det.threshold)
          /\ k2 < det.i
          /\ det.i < k1 + 2 * refractory_samples(fs)

\* num/den * rate rounded to the nearest integer (no integer rate of
\* DetSampleRates gives a tie)
RoundFrac(num, den, rate) == (2 * num * rate + den) \div (2 * den)

\* the lowest index at which the cleaned signal attains its maximum over
\* [max(0, i - w), min(N, i + w))
LowestMaxIn(i, w) ==
    LET lo == Max2(0, i - w)
        hi == Min2(ArrLen(signal_array), i + w)
    IN  CHOOSE m \in lo..(hi - 1) :
            /\ \A j \in lo..(hi - 1) : signal_array[j] <= signal_array[m]
            /\ \A j \in lo..(m - 1) : signal_array[j] < signal_array[m]

\* integrated[i] is a local maximum above the threshold outside the refractory
\* period of the last R-peak
IsCandidate ==
    /\ det.pc = "loop"
    /\ AtLocalMax
    /\ OverThreshold
    /\ (det.r_peaks = <<>> \/ det.i - det.r_peaks[Len(det.r_peaks)] > refractory_samples(fs))

\* an iteration records the lowest index of the window's maximum, and rejects
\* a candidate only when that maximum fails the amplitude gate
RelocatesWithin(w) ==
    /\ det'.r_peaks # det.r_peaks =>
           det'.r_peaks = Append(det.r_peaks, LowestMaxIn(det.i, w))
    /\ IsCandidate =>
           (det'.r_peaks # det.r_peaks
               <=> AmplitudeGate(signal_array, signal_array[LowestMaxIn(det.i, w)]))

\* C18: for every accepted candidate at integrated-signal index i the recorded
\* R-peak is the lowest index at which the cleaned signal attains its maximum
\* over [max(0, i - w), min(N, i + w)), with w = int(0.08 * fs), the product
\* truncated; a candidate within w samples of either end of the signal has
\* its window truncated and is not rejected for that reason.
C18_RelocatedToLowestMax == [][RelocatesWithin((8 * fs) \div 100)]_vars

\* C18 as stated, with w = round(0.08 * fs)
C18_RelocatedToLowestMaxRounded == [][RelocatesWithin(RoundFrac(8, 100, fs))]_vars

\* the candidate at an index below w was accepted: its window started at index
\* 0 and held its maximum twice, and the first of the two was recorded
C18_Witness ==
    /\ Len(det.r_peaks) = 1
    /\ \E k \in 1..(ArrLen(integrated) - 2) :
          /\ IsLocalMax(integrated, k)
          /\ k < search_window(fs)
          /\ det.i = k + refractory_samples(fs)
          /\ det.r_peaks[1] = LowestMaxIn(k, search_window(fs))
          /\ \E j \in (det.r_peaks[1] + 1)..(k + search_window(fs) - 1) :
                /\ j \in DOMAIN signal_array
                /\ signal_array[j] = signal_array[det.r_peaks[1]]

-----------------------------------------------------------------------------
(* Inputs of the pipeline runs: recordings of up to MaxBeats beats of one  *)
(* morphology.  The integrated signal has a strict local maximum at every  *)
(* beat and the cleaned signal has the beat's R wave there.                *)

MaxBeats == 3

\* RR intervals in samples: 300, 400, 450, 500, 800, 1000 and 1500 ms at 140 Hz,
\* and the pair 76, 93 whose mean is above 84 samples (below 100 bpm) while
\* the mean of 60 / RR is above 100
BeatGaps == {42, 56, 63, 70, 76, 93, 112, 140, 210}

QrsShapes == {"spike", "normal", "wide"}

\* "sag": no T wave, the baseline after the QRS complex sinks and stays low
TWaves == {"none", "t", "sag"}

\* samples before the first beat and after the last
Layouts == {[lead |-> 3, tail |-> 8], [lead |-> 12, tail |-> 64]}

\* the QRS complex at offset k from the R wave (0.001 mV)
QrsTemplate(shape, k) ==
    IF shape = "spike" THEN (IF k = 0 THEN 40 ELSE 0)
    ELSE IF shape = "normal"
    THEN CASE k = -3 -> 10 [] k = -2 -> 20 [] k = -1 -> 30 [] k = 0 -> 40
           [] k = 1 -> 25 [] k = 2 -> 10 [] k = 3 -> -5 [] k = 4 -> -15
           [] k = 5 -> -20 [] k = 6 -> -10 [] OTHER -> 0
    ELSE IF k >= -7 /\ k <= 0 THEN 40 + 5 * k
    ELSE IF k > 0 /\ k <= 10 THEN 40 - 6 * k
    ELSE 0

\* the T wave at offset k from the R wave
TTemplate(tw, k) ==
    IF tw = "none" THEN 0
    ELSE IF tw = "sag" THEN (IF k >= 5 THEN -30 - Min2(k, 30) ELSE 0)
    ELSE IF k >= 22 /\ k <= 28 THEN 2 * (k - 21)
    ELSE IF k > 28 /\ k <= 32 THEN 14 - 3 * (k - 28)
    ELSE 0

BeatGapSeqs == UNION {[1..n -> BeatGaps] : n \in 0..(MaxBeats - 1)}

\* positions of the beats: the first at lead, the others by the gaps
BeatPositions(gaps, lead) == [j \in 1..(Len(gaps) + 1) |-> lead + SeqSum(SubSeq(gaps, 1, j - 1))]

\* the beat whose complex covers sample x: the last beat starting at or before x
BeatSignal(pos, N, shape, tw) ==
    [x \in 0..(N - 1) |->
        LET started == {j \in 1..Len(pos) : pos[j] - 7 <= x}
        IN  IF started = {} THEN 0
            ELSE LET p == pos[CHOOSE j \in started : \A j2 \in started : j2 <= j]
                 IN  QrsTemplate(shape, x - p) + TTemplate(tw, x - p)]

BeatIntegrated(pos, N) ==
    [x \in 0..(N - 1) |-> IF \E j \in 1..Len(pos) : pos[j] = x THEN 3 ELSE 0]

Init ==
    /\ fs \in SampleRates
    /\ \/ /\ signal_array = [x \in 0..69 |-> 0]
          /\ integrated = [x \in 0..69 |-> 0]
       \/ \E gaps \in BeatGapSeqs, lay \in Layouts, shape \in QrsShapes, tw \in TWaves :
             LET pos == BeatPositions(gaps, lay.lead)
                 N   == pos[Len(pos)] + lay.tail
             IN  /\ signal_array = BeatSignal(pos, N, shape, tw)
                 /\ integrated = BeatIntegrated(pos, N)
    /\ det = DetStart(integrated)
    /\ r_peak_indices = <<>>
    /\ results = NoResults
    /\ metrics = NoMetrics
    /\ ProcessorConstructed

\* the worker's Python call: results = process_ecg_complete(...)
ProcessECGComplete ==
    /\ results.status = "none"
    /\ results' = process_ecg_complete(signal_array, integrated, fs)
    /\ det' = [DetRun(signal_array, integrated, fs, det) EXCEPT !.pc = "returned"]
    /\ r_peak_indices' = det'.r_peaks
    /\ UNCHANGED <<fs, signal_array, integrated, metrics, workerVars, mainVars, serviceVars>>

\* the main thread's handling of ECG_PROCESSED: result = transformResults(data)
TransformResults ==
    /\ results.status = "processed"
    /\ metrics.status = "none"
    /\ metrics' = transformResults(results)
    /\ UNCHANGED <<fs, signal_array, integrated, det, r_peak_indices, results, workerVars, mainVars, serviceVars>>

Next == ProcessECGComplete \/ TransformResults

Spec == Init /\ [][Next]_vars


-----------------------------------------------------------------------------
(* Claims about the analysis pipeline.                                     *)

\* the closed set of rhythm labels of the analysis core
RhythmLabels ==
    {"Normal Sinus Rhythm", "Bradycardia", "Tachycardia",
     "Borderline: Mild Irregularity", "Flagged: Irregular Rhythm",
     "Wide-Complex Tachycardia - URGENT EVALUATION", "Insufficient data"}

Processed == results.status = "processed"

\* the label detect_arrhythmia returned for the detected peaks
ClassifierLabel == detect_arrhythmia(results.r_peak_indices, fs).rhythm_status

\* C4: the final rhythm_status returned by process_ecg_complete is one of the
\* seven labels of the closed set.
C4_FinalLabelInClosedSet ==
    Processed => results.rhythm_status \in RhythmLabels

\* a result whose final label is the wide-complex override
C4_Witness ==
    /\ Processed
    /\ results.rhythm_status = "Wide-Complex Tachycardia - URGENT EVALUATION"

\* the three rules' conditions, read from the result
QrsRule == RatGT(results.qrs_metrics.mean_qrs_ms, RatInt(120))

RateRule == RatGT(results.detection_metrics.avg_heart_rate_bpm, RatInt(100))

HrvRule ==
    /\ RatGT(results.hrv_metrics.sdnn_ms_sq, RatInt(0))
    /\ RatLT(results.hrv_metrics.sdnn_ms_sq, RatInt(2500))

\* C6: the final label is the wide-complex override iff mean_qrs_ms > 120 and
\* avg_bpm > 100 and otherwise the classifier's label; clinical_warnings has at
\* most three entries, in the order QRS, QT, low HRV, each present exactly when
\* its rule's condition holds.
C6_InterpreterRules ==
    Processed =>
        /\ results.rhythm_status =
               IF QrsRule /\ RateRule
               THEN "Wide-Complex Tachycardia - URGENT EVALUATION"
               ELSE ClassifierLabel
        /\ Len(results.clinical_warnings) <= 3
        /\ results.clinical_warnings =
               (IF QrsRule
                THEN <<IF RateRule
                       THEN "Wide QRS with tachycardia requires immediate assessment"
                       ELSE results.qrs_metrics.qrs_interpretation>>
                ELSE <<>>)
               \o (IF results.qt_metrics.qt_risk_flag
                   THEN <<results.qt_metrics.qt_interpretation>> ELSE <<>>)
               \o (IF HrvRule
                   THEN <<"Low HRV detected - consider cardiac risk assessment">>
                   ELSE <<>>)

\* a wide QRS at a rate of at most 100 bpm: the label is the classifier's and
\* the QRS warning is the QRS interpretation
C6_Witness ==
    /\ Processed
    /\ QrsRule
    /\ ~RateRule
    /\ results.rhythm_status = ClassifierLabel
    /\ Len(results.clinical_warnings) >= 1

\* C7: with no R-peaks the result has rhythm_status 'Insufficient data',
\* avg_heart_rate_bpm 0, the QRS, QT and HRV numeric metrics zero,
\* qt_risk_flag false and no clinical warnings.
C7_NoPeaksResult ==
    (Processed /\ results.r_peak_indices = <<>>) =>
        /\ results.rhythm_status = "Insufficient data"
        /\ results.detection_metrics.avg_heart_rate_bpm = RatInt(0)
        /\ results.qrs_metrics.mean_qrs_ms = RatInt(0)
        /\ results.qrs_metrics.std_qrs_ms_sq = RatInt(0)
        /\ results.qt_metrics.mean_qt_ms = RatInt(0)
        /\ results.qt_metrics.mean_qtc_bazett_ms.mean_qt = RatInt(0)
        /\ results.qt_metrics.qt_risk_flag = FALSE
        /\ results.hrv_metrics.sdnn_ms_sq = RatInt(0)
        /\ results.hrv_metrics.rmssd_ms_sq = RatInt(0)
        /\ results.hrv_metrics.pnn50_percent = RatInt(0)
        /\ results.hrv_metrics.mean_nn_ms = RatInt(0)
        /\ results.hrv_metrics.cv_percent_sq = RatInt(0)
        /\ results.clinical_warnings = <<>>

\* the flat line has been processed
C7_Witness ==
    /\ Processed
    /\ results.r_peak_indices = <<>>
    /\ \A x \in DOMAIN signal_array : signal_array[x] = 0

\* the six labels of PatientMetrics.rhythmStatus (src/unnamed/part_000)
UiRhythmLabels ==
    {"Normal Sinus Rhythm", "Flagged: Irregular Rhythm", "Bradycardia", "Tachycardia",
     "Wide-Complex Tachycardia", "Analyzing..."}

Rendered == metrics.status = "rendered"

\* C8 (as the code has it): the label the UI renders, normalizeRhythmStatus of
\* the core's rhythm_status, is a member of the PatientMetrics.rhythmStatus
\* union, for every label the core emits.
C8_RenderedLabelInUiUnion ==
    Rendered => metrics.rhythmStatus \in UiRhythmLabels

\* C8 as stated: the rendered label is a member of the core's closed set
C8_RenderedLabelInClosedSet ==
    Rendered => metrics.rhythmStatus \in RhythmLabels

\* 'Insufficient data' is rendered as 'Analyzing...'
C8_Witness ==
    /\ Rendered
    /\ results.rhythm_status = "Insufficient data"
    /\ metrics.rhythmStatus = "Analyzing..."

\* the width measured at peak r passes the filter 40 < width_ms < 200
PassesWidthFilter(r) ==
    /\ QrsEnd(signal_array, r, fs) - QrsStart(signal_array, r, fs) >= 5
    /\ 1000 * (SOffset(signal_array, r, fs) - QOnset(signal_array, r, fs)) > 40 * fs
    /\ 1000 * (SOffset(signal_array, r, fs) - QOnset(signal_array, r, fs)) < 200 * fs

NoWidthPasses ==
    \A k \in 1..Len(results.r_peak_indices) : ~PassesWidthFilter(results.r_peak_indices[k])

CouldNotDetect ==
    /\ results.qrs_metrics.mean_qrs_ms = RatInt(80)
    /\ results.qrs_metrics.std_qrs_ms_sq = RatInt(0)
    /\ results.qrs_metrics.qrs_interpretation = "Could not detect"

\* C10 (as the code has it): with at least 2 peaks and no width passing the
\* 40 < width_ms < 200 filter, measure_qrs_width returns mean 80, std 0 and
\* 'Could not detect'; with fewer than 2 peaks it returns mean 0, std 0 and
\* 'Insufficient data'.
C10_NoValidWidth ==
    Processed =>
        /\ (Len(results.r_peak_indices) >= 2 /\ NoWidthPasses) => CouldNotDetect
        /\ Len(results.r_peak_indices) < 2 =>
              /\ results.qrs_metrics.mean_qrs_ms = RatInt(0)
              /\ results.qrs_metrics.std_qrs_ms_sq = RatInt(0)
              /\ results.qrs_metrics.qrs_interpretation = "Insufficient data"

\* C10 as stated: whenever no width passes, too few peaks included, the
\* result is mean 80, std 0, 'Could not detect'
C10_NoValidWidthAsStated ==
    (Processed /\ NoWidthPasses) => CouldNotDetect

\* several peaks, every width outside the filter
C10_Witness ==
    /\ Processed
    /\ Len(results.r_peak_indices) >= 2
    /\ NoWidthPasses
    /\ CouldNotDetect

\* index of the R-peak in its segment
RLocal(r) == r - Max2(0, r - (5 * fs) \div 100)

\* segment[i], the segment starting pre_window samples before the R-peak
SegAt(r, i) == signal_array[r - RLocal(r) + i]

\* the loop indices i = rL, rL-1, ..., 1 with i < rL - 2 and a flat slope
FlatBefore(r) ==
    {i \in 1..RLocal(r) : i < RLocal(r) - 2 /\ Abs(SegAt(r, i) - SegAt(r, i - 1)) < SlopeLimit}

\* the R-peaks whose segment has at least 5 samples
Measured ==
    {r \in {results.r_peak_indices[k] : k \in 1..Len(results.r_peak_indices)} :
        Min2(ArrLen(signal_array), r + (8 * fs) \div 100) - (r - RLocal(r)) >= 5}

\* C19: for each R-peak measure_qrs_width measures, the Q-onset scan over
\* i = rL, rL-1, ..., 1 sets q_onset to the first (largest) i with i < rL - 2
\* and |seg[i] - seg[i-1]| < 0.005 and stops there; q_onset is 0 if and only
\* if no such i exists.
C19_QOnsetIsFirstFlatSlope ==
    Processed =>
        \A r \in Measured :
            /\ FlatBefore(r) # {} =>
                   /\ QOnset(signal_array, r, fs) \in FlatBefore(r)
                   /\ \A i \in FlatBefore(r) : i <= QOnset(signal_array, r, fs)
            /\ QOnset(signal_array, r, fs) = 0 <=> FlatBefore(r) = {}

\* one R-peak whose scan passed a steep slope below rL - 2 before it matched,
\* and one R-peak with no flat slope, q_onset 0
C19_Witness ==
    /\ Processed
    /\ \E r \in Measured :
          /\ FlatBefore(r) # {}
          /\ QOnset(signal_array, r, fs) < RLocal(r) - 3
          /\ QOnset(signal_array, r, fs) > 0
    /\ \E r \in Measured :
          /\ FlatBefore(r) = {}
          /\ QOnset(signal_array, r, fs) = 0

\* mean_qtc_bazett_ms of the result is below / above c
QtcBelow(c) == QtcLT(results.qt_metrics.mean_qtc_bazett_ms, c)

QtcAbove(c) == QtcGT(results.qt_metrics.mean_qtc_bazett_ms, c)

QtBand ==
    IF QtcBelow(450) THEN "Normal"
    ELSE IF QtcBelow(500) THEN "Prolonged QTc"
    ELSE "High Risk (Long QT)"

WarningTexts == {results.clinical_warnings[k] : k \in 1..Len(results.clinical_warnings)}

\* the warning the interpreter appends for the QT interval, if any
QtWarnings == WarningTexts \cap {"Normal", "Prolonged QTc", "High Risk (Long QT)", "N/A"}

NoQtPasses ==
    \A k \in 1..(Len(results.r_peak_indices) - 1) :
        ~QtKept(signal_array, results.r_peak_indices[k], fs)

\* the flag, the warning and the empty-list case, as the claim states them
QtFlagAndWarning ==
    /\ results.qt_metrics.qt_risk_flag <=> QtcAbove(470)
    /\ QtWarnings \subseteq {"Prolonged QTc", "High Risk (Long QT)"}
    /\ QtWarnings # {} <=> results.qt_metrics.qt_risk_flag
    /\ NoQtPasses =>
           /\ results.qt_metrics.mean_qt_ms = RatInt(0)
           /\ results.qt_metrics.mean_qtc_bazett_ms.mean_qt = RatInt(0)
           /\ QtWarnings = {}

\* C20 (as the code has it): qt_risk_flag is true exactly when
\* mean_qtc_bazett_ms > 470; with at least 3 R-peaks the QT interpretation is
\* 'Normal' below 450, 'Prolonged QTc' below 500 and 'High Risk (Long QT)'
\* otherwise, with fewer than 3 it is 'N/A'; a QT warning is 'Prolonged QTc'
\* or 'High Risk (Long QT)', never 'Normal'; when no QT value passes the
\* 200 < qt_ms < 600 filter both means are 0 and no QT warning is appended.
C20_QtFlagAndInterpretation ==
    Processed =>
        /\ QtFlagAndWarning
        /\ results.qt_metrics.qt_interpretation =
               IF Len(results.r_peak_indices) >= 3 THEN QtBand ELSE "N/A"

\* C20 as stated: the interpretation follows the three bands in every result
C20_QtFlagAndInterpretationAsStated ==
    Processed =>
        /\ QtFlagAndWarning
        /\ results.qt_metrics.qt_interpretation = QtBand

\* a mean QTc between 470 and 500: the flag is set and the warning appended is
\* 'Prolonged QTc'
C20_Witness ==
    /\ Processed
    /\ Len(results.r_peak_indices) >= 3
    /\ QtcAbove(470)
    /\ QtcBelow(500)
    /\ results.qt_metrics.qt_risk_flag
    /\ QtWarnings = {"Prolonged QTc"}

FewPeaks == Len(results.r_peak_indices) < 3

\* the interpreter left the classifier's label and added no warning
NothingInterpreted ==
    /\ results.rhythm_status = "Insufficient data"
    /\ results.clinical_warnings = <<>>

\* C27 (as the code has it): with fewer than 3 R-peaks the classifier's label
\* is 'Insufficient data' and the QT and HRV rules add no warning; the final
\* rhythm_status is 'Insufficient data' and clinical_warnings is empty unless
\* exactly 2 peaks were detected and their mean QRS width is above 120 ms: then
\* the interpreter appends the QRS warning, and above 100 bpm it overrides the
\* label with 'Wide-Complex Tachycardia - URGENT EVALUATION'.
C27_FewPeaksInsufficientData ==
    (Processed /\ FewPeaks) =>
        /\ ClassifierLabel = "Insufficient data"
        /\ ~results.qt_metrics.qt_risk_flag
        /\ ~HrvRule
        /\ IF Len(results.r_peak_indices) = 2 /\ QrsRule
           THEN /\ Len(results.clinical_warnings) = 1
                /\ results.rhythm_status # "Insufficient data" <=> RateRule
           ELSE NothingInterpreted

\* C27 as stated: fewer than 3 peaks always end in 'Insufficient data' with no
\* warning
C27_FewPeaksInsufficientDataAsStated ==
    (Processed /\ FewPeaks) => NothingInterpreted

\* exactly 2 peaks with a measured mean QRS width of at most 120 ms
C27_Witness ==
    /\ Processed
    /\ Len(results.r_peak_indices) = 2
    /\ results.qrs_metrics.qrs_interpretation # "Could not detect"
    /\ ~QrsRule
    /\ NothingInterpreted

ReportedBpm == results.detection_metrics.avg_heart_rate_bpm

\* C28: whenever the final rhythm_status is 'Tachycardia' the reported bpm
\* (avg_heart_rate_bpm = 60 / mean RR) is above 100, and whenever it is
\* 'Bradycardia' the reported bpm is below 60.
C28_RateLabelAgreesWithBpm ==
    Processed =>
        /\ results.rhythm_status = "Tachycardia" => RatGT(ReportedBpm, RatInt(100))
        /\ results.rhythm_status = "Bradycardia" => RatLT(ReportedBpm, RatInt(60))

\* the span of the search segment in samples: int(0.05*fs) + int(0.08*fs) - 1
SegmentSpan(rate) == (5 * rate) \div 100 + (8 * rate) \div 100 - 1

\* the R-peaks whose width measure_qrs_width retains
Retained ==
    {r \in Measured : /\ 1000 * (SOffset(signal_array, r, fs) - QOnset(signal_array, r, fs)) > 40 * fs
                      /\ 1000 * (SOffset(signal_array, r, fs) - QOnset(signal_array, r, fs)) < 200 * fs}

\* C29: every QRS width measure_qrs_width retains is at most
\* (int(0.05*fs) + int(0.08*fs) - 1) * 1000 / fs ms, the span of the search
\* segment, so mean_qrs_ms is 0, 80 or a value in (40, 130) ms; at fs = 250
\* the span is 124 ms.
C29_QrsWidthWithinSegment ==
    /\ SegmentSpan(250) * 1000 = 124 * 250
    /\ (pre_window(250) + post_window(250) - 1) * 1000 = 124 * 250
    /\ Processed =>
           /\ \A r \in Retained :
                  SOffset(signal_array, r, fs) - QOnset(signal_array, r, fs) <= SegmentSpan(fs)
           /\ \/ results.qrs_metrics.mean_qrs_ms = RatInt(0)
              \/ results.qrs_metrics.mean_qrs_ms = RatInt(80)
              \/ /\ RatGT(results.qrs_metrics.mean_qrs_ms, RatInt(40))
                 /\ RatLT(results.qrs_metrics.mean_qrs_ms, RatInt(130))
                 /\ RatLE(results.qrs_metrics.mean_qrs_ms, Rat(1000 * SegmentSpan(fs), fs))

\* every beat's width is the whole span of the segment, and so is the mean
C29_Witness ==
    /\ Processed
    /\ Len(results.r_peak_indices) >= 2
    /\ Retained # {}
    /\ \A r \in Retained :
           SOffset(signal_array, r, fs) - QOnset(signal_array, r, fs) = SegmentSpan(fs)
    /\ results.qrs_metrics.mean_qrs_ms = Rat(1000 * SegmentSpan(fs), fs)

NonNegative(x) == x.n >= 0 /\ x.d > 0

\* the field of a metrics dict is absent or non-negative
NonNegativeIfPresent(dict, key) == key \in DOMAIN dict => NonNegative(dict[key])

\* C11: in every result every metric in milliseconds (mean_qrs_ms, std_qrs_ms,
\* mean_qt_ms, mean_qtc_bazett_ms, sdnn_ms, rmssd_ms, sdsd_ms, mean_nn_ms,
\* mean_rr_ms, std_rr_ms) is non-negative and pnn50 lies in [0, 100].  A
\* standard deviation is non-negative when the variance it is the root of is.
C11_MsNonNegativePnnBounded ==
    Processed =>
        /\ NonNegative(results.qrs_metrics.mean_qrs_ms)
        /\ NonNegative(results.qrs_metrics.std_qrs_ms_sq)
        /\ NonNegative(results.qt_metrics.mean_qt_ms)
        /\ NonNegative(results.qt_metrics.mean_qtc_bazett_ms.mean_qt)
        /\ results.qt_metrics.mean_qtc_bazett_ms.mean_rr.n > 0
        /\ NonNegative(results.hrv_metrics.sdnn_ms_sq)
        /\ NonNegative(results.hrv_metrics.rmssd_ms_sq)
        /\ NonNegativeIfPresent(results.hrv_metrics, "sdsd_ms_sq")
        /\ NonNegativeIfPresent(results.hrv_metrics, "mean_nn_ms")
        /\ NonNegativeIfPresent(results.arrhythmia_metrics, "mean_rr_ms")
        /\ NonNegativeIfPresent(results.arrhythmia_metrics, "std_rr_ms_sq")
        /\ NonNegative(results.hrv_metrics.pnn50_percent)
        /\ RatLE(results.hrv_metrics.pnn50_percent, RatInt(100))
        /\ NonNegative(results.metrics.qrsWidth)
        /\ NonNegative(results.metrics.sdnn_sq)
        /\ NonNegative(results.metrics.rmssd_sq)

\* a result of three beats on a sinking baseline: the tangent method puts the
\* end of the T wave before the Q onset, and the beat's QT value is dropped
C11_Witness ==
    /\ Processed
    /\ Len(results.r_peak_indices) = 3
    /\ \E k \in 1..2 :
          /\ QtKept_noRange(signal_array, results.r_peak_indices[k], fs)
          /\ QtMs(signal_array, results.r_peak_indices[k], fs).n < 0
    /\ results.qt_metrics.mean_qt_ms = RatInt(0)
    /\ results.hrv_metrics.pnn50_percent = RatInt(100)

-----------------------------------------------------------------------------
(* The rhythm classifier and the HRV metrics as functions of an R-peak     *)
(* list: lists of up to MaxPeaks peaks with the RR intervals of BeatGaps.  *)

MaxPeaks == 5

PeakLists ==
    {<<>>} \cup {BeatPositions(gaps, 3) :
                    gaps \in UNION {[1..n -> BeatGaps] : n \in 0..(MaxPeaks - 1)}}

NoAnalysis ==
    [status |-> "analysis", arrhythmia |-> [called |-> FALSE], hrv |-> [called |-> FALSE]]

AnalysisInit ==
    /\ fs \in SampleRates
    /\ signal_array = <<>>
    /\ integrated = <<>>
    /\ det = [pc |-> "returned"]
    /\ r_peak_indices \in PeakLists
    /\ results = NoAnalysis
    /\ metrics = NoMetrics
    /\ ProcessorConstructed

\* rhythm_status, arrhythmia_metrics = detect_arrhythmia(r_peaks, sample_rate)
CallDetectArrhythmia ==
    /\ results.status = "analysis"
    /\ ~results.arrhythmia.called
    /\ LET a == detect_arrhythmia(r_peak_indices, fs)
       IN  results' = [results EXCEPT !.arrhythmia =
                          [called |-> TRUE, rhythm_status |-> a.rhythm_status,
                           metrics |-> a.metrics]]
    /\ UNCHANGED <<fs, signal_array, integrated, det, r_peak_indices, metrics,
                   workerVars, mainVars, serviceVars>>

\* hrv_metrics = calculate_hrv_metrics(r_peaks, sample_rate)
CallCalculateHrvMetrics ==
    /\ results.status = "analysis"
    /\ ~results.hrv.called
    /\ results' = [results EXCEPT !.hrv =
                      [called |-> TRUE,
                       metrics |-> calculate_hrv_metrics(r_peak_indices, fs)]]
    /\ UNCHANGED <<fs, signal_array, integrated, det, r_peak_indices, metrics,
                   workerVars, mainVars, serviceVars>>

AnalysisNext == CallDetectArrhythmia \/ CallCalculateHrvMetrics

SpecAnalysis == AnalysisInit /\ [][AnalysisNext]_vars

Classified == results.status = "analysis" /\ results.arrhythmia.called

HrvComputed == results.status = "analysis" /\ results.hrv.called

\* C5: with at least 3 peaks detect_arrhythmia returns the label of the
\* first-match hierarchy: Flagged when cv >= 0.15 whatever the rate; otherwise
\* Bradycardia when mean_hr < 60 and Tachycardia when mean_hr > 100; otherwise
\* Borderline when cv >= 0.08, else Normal Sinus Rhythm.
C5_FirstMatchHierarchy ==
    (Classified /\ Len(r_peak_indices) >= 3) =>
        LET cv2     == results.arrhythmia.metrics.cv_sq
            mean_hr == results.arrhythmia.metrics.mean_hr
        IN  results.arrhythmia.rhythm_status =
                IF RatGE(cv2, Rat(15 * 15, 100 * 100)) THEN "Flagged: Irregular Rhythm"
                ELSE IF RatLT(mean_hr, RatInt(60)) THEN "Bradycardia"
                ELSE IF RatGT(mean_hr, RatInt(100)) THEN "Tachycardia"
                ELSE IF RatGE(cv2, Rat(8 * 8, 100 * 100))
                     THEN "Borderline: Mild Irregularity"
                ELSE "Normal Sinus Rhythm"

\* a tachycardia with 0.08 <= cv < 0.15, which the borderline rule leaves alone
C5_Witness ==
    /\ Classified
    /\ Len(r_peak_indices) >= 3
    /\ RatGE(results.arrhythmia.metrics.cv_sq, Rat(64, 10000))
    /\ RatLT(results.arrhythmia.metrics.cv_sq, Rat(225, 10000))
    /\ results.arrhythmia.rhythm_status = "Tachycardia"

\* the RR intervals (by index) strictly between 300 and 1500 ms
StrictlyWithin ==
    LET rr == Diff(r_peak_indices)
    IN  {k \in 1..Len(rr) : 1000 * rr[k] > 300 * fs /\ 1000 * rr[k] < 1500 * fs}

\* C9: with at least 3 peaks the NN intervals are exactly the RR intervals
\* strictly between 300 and 1500 ms, ectopic_removed is the number of RR
\* intervals minus the number of NN intervals and nn_count + ectopic_removed =
\* len(r_peaks) - 1; with fewer than 2 NN intervals sdnn, rmssd and pnn50 are 0
\* with 'High noise level - unstable RR'.
C9_NnFilterAndCounts ==
    (HrvComputed /\ Len(r_peak_indices) >= 3) =>
        LET rr == Diff(r_peak_indices)
            m  == Cardinality(StrictlyWithin)
            h  == results.hrv.metrics
        IN  IF m < 2
            THEN /\ h.sdnn_ms_sq = RatInt(0)
                 /\ h.rmssd_ms_sq = RatInt(0)
                 /\ h.pnn50_percent = RatInt(0)
                 /\ h.hrv_interpretation = "High noise level - unstable RR"
            ELSE /\ h.nn_count = m
                 /\ h.ectopic_removed = Len(rr) - m
                 /\ h.nn_count + h.ectopic_removed = Len(r_peak_indices) - 1
                 /\ h.mean_nn_ms =
                       Rat(1000 * SeqSum([k \in 1..Len(rr) |->
                                             IF k \in StrictlyWithin THEN rr[k] ELSE 0]),
                           m * fs)

\* intervals of exactly 300 ms and exactly 1500 ms removed, two NN intervals kept
C9_Witness ==
    /\ HrvComputed
    /\ Len(r_peak_indices) >= 3
    /\ \E k \in 1..(Len(r_peak_indices) - 1) :
          1000 * (r_peak_indices[k + 1] - r_peak_indices[k]) = 300 * fs
    /\ \E k \in 1..(Len(r_peak_indices) - 1) :
          1000 * (r_peak_indices[k + 1] - r_peak_indices[k]) = 1500 * fs
    /\ results.hrv.metrics.hrv_interpretation # "High noise level - unstable RR"
    /\ results.hrv.metrics.ectopic_removed = 2

-----------------------------------------------------------------------------
(* The analysis stages of process_ecg_complete as separate steps: after    *)
(* the detector, detect_arrhythmia, measure_qrs_width,                     *)
(* calculate_qt_interval and calculate_hrv_metrics are called in any       *)
(* order, and the clinical interpretation follows the last of them.        *)

\* (mutant) the loop over the R-peaks consumes the caller's list
ArgsAfterMeasureQrsWidth_consumed(ecg_signal, r_peaks) ==
    [ecg_signal |-> ecg_signal, r_peaks |-> <<>>]

\* measure_qrs_width works on its own array (np.array copies ecg_signal) and
\* only iterates over r_peaks: the caller's arguments after the call
ArgsAfterMeasureQrsWidth(ecg_signal, r_peaks) ==
    [ecg_signal |-> ecg_signal, r_peaks |-> r_peaks]

\* calculate_qt_interval likewise copies ecg_signal and indexes r_peaks
ArgsAfterCalculateQtInterval(ecg_signal, r_peaks) ==
    [ecg_signal |-> ecg_signal, r_peaks |-> r_peaks]

\* r_peaks, detection_metrics = pan_tompkins_detector(cleaned_signal, ...)
RunDetector ==
    /\ results.status = "none"
    /\ det' = [DetRun(signal_array, integrated, fs, det) EXCEPT !.pc = "returned"]
    /\ r_peak_indices' = det'.r_peaks
    /\ results' = [status            |-> "analysis",
                   detection_metrics |-> DetectionMetrics(det'.r_peaks, fs, det'.threshold),
                   arrhythmia        |-> [called |-> FALSE],
                   qrs               |-> [called |-> FALSE],
                   qt                |-> [called |-> FALSE],
                   hrv               |-> [called |-> FALSE],
                   interpretation    |-> [called |-> FALSE]]
    /\ UNCHANGED <<fs, signal_array, integrated, metrics, workerVars, mainVars, serviceVars>>

\* qrs_metrics = measure_qrs_width(cleaned_signal, r_peaks, sample_rate)
CallMeasureQrsWidth ==
    /\ results.status = "analysis"
    /\ ~results.qrs.called
    /\ results' = [results EXCEPT !.qrs =
                      [called |-> TRUE,
                       metrics |-> measure_qrs_width(signal_array, r_peak_indices, fs)]]
    /\ signal_array' = ArgsAfterMeasureQrsWidth(signal_array, r_peak_indices).ecg_signal
    /\ r_peak_indices' = ArgsAfterMeasureQrsWidth(signal_array, r_peak_indices).r_peaks
    /\ UNCHANGED <<fs, integrated, det, metrics, workerVars, mainVars, serviceVars>>

\* qt_metrics = calculate_qt_interval(cleaned_signal, r_peaks, sample_rate)
CallCalculateQtInterval ==
    /\ results.status = "analysis"
    /\ ~results.qt.called
    /\ results' = [results EXCEPT !.qt =
                      [called |-> TRUE,
                       metrics |-> calculate_qt_interval(signal_array, r_peak_indices, fs)]]
    /\ signal_array' = ArgsAfterCalculateQtInterval(signal_array, r_peak_indices).ecg_signal
    /\ r_peak_indices' = ArgsAfterCalculateQtInterval(signal_array, r_peak_indices).r_peaks
    /\ UNCHANGED <<fs, integrated, det, metrics, workerVars, mainVars, serviceVars>>

\* lines 546-561, once the four bundles are there
Interpret ==
    /\ results.status = "analysis"
    /\ results.arrhythmia.called
    /\ results.qrs.called
    /\ results.qt.called
    /\ results.hrv.called
    /\ ~results.interpretation.called
    /\ results' = [results EXCEPT !.interpretation =
                      [called |-> TRUE,
                       rhythm_status |-> EnhancedRhythm(results.arrhythmia.rhythm_status,
                                                        results.qrs.metrics,
                                                        results.detection_metrics),
                       clinical_warnings |-> ClinicalWarnings(results.qrs.metrics,
                                                              results.qt.metrics,
                                                              results.hrv.metrics,
                                                              results.detection_metrics)]]
    /\ UNCHANGED <<fs, signal_array, integrated, det, r_peak_indices, metrics,
                   workerVars, mainVars, serviceVars>>

StagesNext ==
    \/ RunDetector
    \/ CallDetectArrhythmia
    \/ CallMeasureQrsWidth
    \/ CallCalculateQtInterval
    \/ CallCalculateHrvMetrics
    \/ Interpret

\* the beat recordings with the longer lead and tail, before the detector runs
StagesInit ==
    /\ fs \in SampleRates
    /\ \E gaps \in BeatGapSeqs, shape \in QrsShapes, tw \in TWaves :
          LET pos == BeatPositions(gaps, 12)
              N   == pos[Len(pos)] + 64
          IN  /\ signal_array = BeatSignal(pos, N, shape, tw)
              /\ integrated = BeatIntegrated(pos, N)
    /\ det = DetStart(integrated)
    /\ r_peak_indices = <<>>
    /\ results = NoResults
    /\ metrics = NoMetrics
    /\ ProcessorConstructed

SpecStages == StagesInit /\ [][StagesNext]_vars

\* the stages have all run, in whatever order, and the result is interpreted
Interpreted == results.status = "analysis" /\ results.interpretation.called

\* the bundles, label and warnings are those of the order of process_ecg_complete
SameAsSequential ==
    Interpreted =>
        LET ref == process_ecg_complete(signal_array, integrated, fs)
        IN  /\ results.arrhythmia.metrics = ref.arrhythmia_metrics
            /\ results.qrs.metrics = ref.qrs_metrics
            /\ results.qt.metrics = ref.qt_metrics
            /\ results.hrv.metrics = ref.hrv_metrics
            /\ results.interpretation.rhythm_status = ref.rhythm_status
            /\ results.interpretation.clinical_warnings = ref.clinical_warnings

\* a step of an analysis stage leaves the cleaned signal and the R-peak list
\* as they were
StageLeavesInputs ==
    results.status = "analysis" =>
        /\ signal_array' = signal_array
        /\ r_peak_indices' = r_peak_indices

-----------------------------------------------------------------------------
(* The worker's message handlers and the ECGProcessor.  A Python call is   *)
(* carried as the function called and the arguments it read, in place of   *)
(* its result.  A request id is a pair <<prefix, number>>.                 *)

MaxCalls == 3

MaxClock == 1

\* "config.sampleRate || 250"
DefaultSampleRate == 250

\* filtfilt pads the signal with 3 * max(len(a), len(b)) samples on each side,
\* 27 for the order-4 band-pass, and raises unless the signal is longer
FiltfiltPadlen == 27

\* a recording of k samples of value v
Samples(k, v) == [i \in 1..k |-> v]

\* recordings; the last is too short for filtfilt, which raises
Recordings ==
    {Samples(FiltfiltPadlen + 1, RatInt(0)), Samples(FiltfiltPadlen + 1, RatInt(1)),
     Samples(FiltfiltPadlen, RatInt(1))}

\* ProcessingConfig values; sampleRate 0 stands for an absent field
Configs == {[sampleRate |-> 0, verbose |-> FALSE], [sampleRate |-> 360, verbose |-> TRUE]}

OrDefault(x, d) == IF x = 0 THEN d ELSE x

InitId == <<"__init__", 0>>

NoId == <<"", 0>>

\* Map.set, Map.delete, Map.has on pendingRequests (a set of entries)
MapSet(map, id, p) == {e \in map : e.id # id} \cup {[id |-> id, promise |-> p]}

MapDelete(map, id) == {e \in map : e.id # id}

MapHas(map, id) == \E e \in map : e.id = id

MapGet(map, id) == (CHOOSE e \in map : e.id = id).promise

\* preprocess_ecg's filtfilt raises on a recording shorter than its padding
PythonRaises(raw_voltages) == Len(raw_voltages) <= FiltfiltPadlen

Progress(stage, percent) ==
    [type |-> "PYODIDE_LOADING_PROGRESS", data |-> [stage |-> stage, progress |-> percent]]

\* ECGProcessor.initialize, when no attempt is under way and the status is not 'ready'
Initialize ==
    /\ initializationPromise = "null"
    /\ status # "ready"
    /\ status' = "initializing"
    /\ worker' = "created"
    /\ initializationPromise' = "pending"
    /\ pendingRequests' = MapSet(pendingRequests, InitId, 0)
    /\ toWorker' = Append(toWorker, [type |-> "INIT_PYODIDE"])
    /\ UNCHANGED <<coreVars, serviceVars, isPyodideReady, initPc, globals, handlers, toMain, posted,
                   promises, now>>

\* the worker's handler of INIT_PYODIDE up to its first await
WorkerHandleInit ==
    /\ toWorker # <<>>
    /\ Head(toWorker).type = "INIT_PYODIDE"
    /\ toWorker' = Tail(toWorker)
    /\ initPc' = "loading_runtime"
    /\ toMain' = Append(toMain, Progress("loading_runtime", 0))
    /\ posted' = Append(posted, Progress("loading_runtime", 0))
    /\ UNCHANGED <<coreVars, serviceVars, isPyodideReady, globals, handlers, mainVars>>

\* (mutant) PYODIDE_READY posted once the packages are loaded, the progress
\* message of the code stage after it
PostedAfter_readyEarly(pc) ==
    CASE pc = "loading_runtime" -> Progress("loading_packages", 30)
      [] pc = "loading_numpy" -> Progress("loading_packages", 60)
      [] pc = "loading_scipy" -> [type |-> "PYODIDE_READY"]
      [] OTHER -> Progress("initializing_code", 90)

\* the message initializePyodide posts after the await of stage pc succeeded
PostedAfter(pc) ==
    CASE pc = "loading_runtime" -> Progress("loading_packages", 30)
      [] pc = "loading_numpy" -> Progress("loading_packages", 60)
      [] pc = "loading_scipy" -> Progress("initializing_code", 90)
      [] OTHER -> [type |-> "PYODIDE_READY"]

\* initializePyodide resumes after an await that succeeded
WorkerInitStep ==
    /\ initPc \in {"loading_runtime", "loading_numpy", "loading_scipy", "loading_code"}
    /\ initPc' = CASE initPc = "loading_runtime" -> "loading_numpy"
                   [] initPc = "loading_numpy" -> "loading_scipy"
                   [] initPc = "loading_scipy" -> "loading_code"
                   [] OTHER -> "done"
    /\ isPyodideReady' = IF initPc = "loading_code" THEN TRUE ELSE isPyodideReady
    /\ toMain' = Append(toMain, PostedAfter(initPc))
    /\ posted' = Append(posted, PostedAfter(initPc))
    /\ UNCHANGED <<coreVars, serviceVars, globals, handlers, toWorker, mainVars>>

\* an await of initializePyodide rejects: the catch block posts ERROR
WorkerInitFail ==
    /\ initPc \in {"loading_runtime", "loading_numpy", "loading_scipy", "loading_code"}
    /\ initPc' = "failed"
    /\ toMain' = Append(toMain, [type |-> "ERROR", requestId |-> NoId,
                                 error |-> "Failed to initialize Pyodide"])
    /\ posted' = Append(posted, [type |-> "ERROR", requestId |-> NoId,
                                 error |-> "Failed to initialize Pyodide"])
    /\ UNCHANGED <<coreVars, serviceVars, isPyodideReady, globals, handlers, toWorker, mainVars>>

\* Date.now() advances
Tick ==
    /\ now < MaxClock
    /\ now' = now + 1
    /\ UNCHANGED <<coreVars, serviceVars, workerVars, worker, status, initializationPromise,
                   pendingRequests, promises>>

\* ECGProcessor.processECG: what the call does to the processor and the promise
\* it returns.  On a processor that is not ready or has no worker the async
\* function throws, so the promise it returns is rejected
ProcessECGCalled(rawVoltages, config) ==
    IF status = "ready" /\ worker # "null"
    THEN LET requestId == <<"req", Len(promises) + 1>>
         IN  /\ status' = "processing"
             /\ pendingRequests' = MapSet(pendingRequests, requestId, Len(promises) + 1)
             /\ promises' = Append(promises,
                                   [kind |-> "processECG", rawVoltages |-> rawVoltages,
                                    config |-> config, requestId |-> requestId,
                                    state |-> "pending", value |-> [type |-> "none"]])
             /\ toWorker' = Append(toWorker,
                                   [type |-> "PROCESS_ECG", rawVoltages |-> rawVoltages,
                                    config |-> [sampleRate |-> OrDefault(config.sampleRate,
                                                                         DefaultSampleRate),
                                                verbose |-> config.verbose],
                                    requestId |-> requestId])
    ELSE /\ promises' = Append(promises,
                               [kind |-> "processECG", rawVoltages |-> rawVoltages,
                                config |-> config, requestId |-> NoId, state |-> "rejected",
                                value |-> [type |-> "Error",
                                           error |-> IF status # "ready"
                                                     THEN "ECGProcessor not initialized. Call initialize() first."
                                                     ELSE "Worker not available"]])
         /\ UNCHANGED <<status, pendingRequests, toWorker>>

\* ECGProcessor.processECG on a ready processor
CallProcessECG ==
    /\ status = "ready"
    /\ worker # "null"
    /\ Len(promises) < MaxCalls
    /\ \E rawVoltages \in Recordings, config \in Configs : ProcessECGCalled(rawVoltages, config)
    /\ UNCHANGED <<coreVars, serviceVars, isPyodideReady, initPc, globals, handlers, toMain, posted,
                   worker, initializationPromise, now>>

\* ECGProcessor.preprocessOnly on a ready processor: the status stays 'ready'
CallPreprocessOnly ==
    /\ status = "ready"
    /\ worker # "null"
    /\ Len(promises) < MaxCalls
    /\ \E rawVoltages \in Recordings, config \in Configs :
          LET requestId == <<"preprocess", now>>
          IN  /\ pendingRequests' = MapSet(pendingRequests, requestId, Len(promises) + 1)
              /\ promises' = Append(promises,
                                    [kind |-> "preprocessOnly", rawVoltages |-> rawVoltages,
                                     config |-> config, requestId |-> requestId,
                                     state |-> "pending", value |-> [type |-> "none"]])
              /\ toWorker' = Append(toWorker,
                                    [type |-> "PREPROCESS_ONLY", rawVoltages |-> rawVoltages,
                                     config |-> config, requestId |-> requestId])
    /\ UNCHANGED <<coreVars, serviceVars, isPyodideReady, initPc, globals, handlers, toMain, posted,
                   worker, status, initializationPromise, now>>

\* the worker's handler of PROCESS_ECG or PREPROCESS_ONLY up to its await of
\* runPythonAsync: the Pyodide globals are set and the Python call is scheduled
WorkerHandleRequest ==
    /\ toWorker # <<>>
    /\ Head(toWorker).type \in {"PROCESS_ECG", "PREPROCESS_ONLY"}
    /\ toWorker' = Tail(toWorker)
    /\ LET m == Head(toWorker)
       IN  IF ~isPyodideReady
           THEN /\ toMain' = Append(toMain, [type |-> "ERROR", requestId |-> m.requestId,
                                             error |-> "Worker error"])
                /\ posted' = Append(posted, [type |-> "ERROR", requestId |-> m.requestId,
                                             error |-> "Worker error"])
                /\ UNCHANGED <<globals, handlers>>
           ELSE /\ handlers' = Append(handlers, m)
                /\ globals' =
                      LET set == GlobalsSet(GlobalsSet(globals, "raw_voltages_js", m.rawVoltages),
                                            "sample_rate",
                                            OrDefault(m.config.sampleRate, DefaultSampleRate))
                      IN  IF m.type = "PROCESS_ECG"
                          THEN GlobalsSet(set, "verbose", m.config.verbose)
                          ELSE set
                /\ UNCHANGED <<toMain, posted>>
    /\ UNCHANGED <<coreVars, serviceVars, isPyodideReady, initPc, mainVars>>

\* what the Python script of a handler computes from the globals it reads
PythonCall(type) ==
    IF type = "PROCESS_ECG"
    THEN [fn |-> "process_ecg_complete", raw_voltages_js |-> globals.raw_voltages_js,
          sample_rate |-> globals.sample_rate, verbose |-> globals.verbose]
    ELSE [fn |-> "preprocess_ecg", raw_voltages_js |-> globals.raw_voltages_js,
          sample_rate |-> globals.sample_rate, verbose |-> FALSE]

\* (mutant) the result is posted before the handler learns that Python raised
HandlerPosts_partial(h, call) ==
    <<[type |-> IF h.type = "PROCESS_ECG" THEN "ECG_PROCESSED" ELSE "PREPROCESSING_COMPLETE",
       data |-> call, requestId |-> h.requestId]>>
    \o (IF PythonRaises(call.raw_voltages_js)
        THEN <<[type |-> "ERROR", requestId |-> h.requestId,
                error |-> IF h.type = "PROCESS_ECG" THEN "Processing failed"
                          ELSE "Preprocessing failed"]>>
        ELSE <<>>)

\* the try / catch of processECG and preprocessOnly around the Python call:
\* the messages the handler h posts once its call has run
HandlerPosts(h, call) ==
    IF PythonRaises(call.raw_voltages_js)
    THEN <<[type |-> "ERROR", requestId |-> h.requestId,
            error |-> IF h.type = "PROCESS_ECG" THEN "Processing failed"
                      ELSE "Preprocessing failed"]>>
    ELSE <<[type |-> IF h.type = "PROCESS_ECG" THEN "ECG_PROCESSED"
                     ELSE "PREPROCESSING_COMPLETE",
            data |-> call, requestId |-> h.requestId]>>

\* the scheduled Python call of the oldest suspended handler runs and the
\* handler resumes: it posts its reply, or ERROR when Python raised
RunPython ==
    /\ handlers # <<>>
    /\ handlers' = Tail(handlers)
    /\ toMain' = toMain \o HandlerPosts(Head(handlers), PythonCall(Head(handlers).type))
    /\ posted' = posted \o HandlerPosts(Head(handlers), PythonCall(Head(handlers).type))
    /\ UNCHANGED <<coreVars, serviceVars, isPyodideReady, initPc, globals, toWorker, mainVars>>

\* resolve or reject the j-th returned promise; a settled promise stays as it is
Settle(ps, j, state, value) ==
    IF ps[j].state = "pending"
    THEN [ps EXCEPT ![j].state = state, ![j].value = value]
    ELSE ps

\* handleWorkerMessage, case PYODIDE_LOADING_PROGRESS: the callbacks are told
HandleProgress ==
    /\ toMain # <<>>
    /\ Head(toMain).type = "PYODIDE_LOADING_PROGRESS"
    /\ toMain' = Tail(toMain)
    /\ UNCHANGED <<coreVars, serviceVars, isPyodideReady, initPc, globals, handlers, toWorker, posted, mainVars>>

\* handleWorkerMessage, case PYODIDE_READY
HandlePyodideReady ==
    /\ toMain # <<>>
    /\ Head(toMain).type = "PYODIDE_READY"
    /\ toMain' = Tail(toMain)
    /\ IF MapHas(pendingRequests, InitId)
       THEN /\ status' = "ready"
            /\ initializationPromise' = IF initializationPromise = "pending" THEN "resolved"
                                        ELSE initializationPromise
       ELSE UNCHANGED <<status, initializationPromise>>
    /\ pendingRequests' = MapDelete(pendingRequests, InitId)
    /\ UNCHANGED <<coreVars, serviceVars, isPyodideReady, initPc, globals, handlers, toWorker, posted, worker,
                   promises, now>>

\* handleWorkerMessage, case ECG_PROCESSED
HandleEcgProcessed ==
    /\ toMain # <<>>
    /\ Head(toMain).type = "ECG_PROCESSED"
    /\ toMain' = Tail(toMain)
    /\ LET m == Head(toMain)
       IN  IF MapHas(pendingRequests, m.requestId)
           THEN /\ promises' = Settle(promises, MapGet(pendingRequests, m.requestId),
                                      "resolved",
                                      [type |-> "ProcessingResult", from |-> m.data])
                /\ pendingRequests' = MapDelete(pendingRequests, m.requestId)
           ELSE UNCHANGED <<promises, pendingRequests>>
    /\ status' = "ready"
    /\ UNCHANGED <<coreVars, serviceVars, isPyodideReady, initPc, globals, handlers, toWorker, posted, worker,
                   initializationPromise, now>>

\* handleWorkerMessage, case PREPROCESSING_COMPLETE
HandlePreprocessingComplete ==
    /\ toMain # <<>>
    /\ Head(toMain).type = "PREPROCESSING_COMPLETE"
    /\ toMain' = Tail(toMain)
    /\ LET m == Head(toMain)
       IN  /\ promises' = IF MapHas(pendingRequests, m.requestId)
                          THEN Settle(promises, MapGet(pendingRequests, m.requestId),
                                      "resolved", [type |-> "Preprocessed", from |-> m.data])
                          ELSE promises
           /\ pendingRequests' = MapDelete(pendingRequests, m.requestId)
    /\ status' = "ready"
    /\ UNCHANGED <<coreVars, serviceVars, isPyodideReady, initPc, globals, handlers, toWorker, posted, worker,
                   initializationPromise, now>>

\* handleWorkerMessage, case ERROR
HandleError ==
    /\ toMain # <<>>
    /\ Head(toMain).type = "ERROR"
    /\ toMain' = Tail(toMain)
    /\ LET m == Head(toMain)
       IN  /\ promises' = IF m.requestId # NoId /\ MapHas(pendingRequests, m.requestId)
                          THEN Settle(promises, MapGet(pendingRequests, m.requestId),
                                      "rejected", [type |-> "Error", error |-> m.error])
                          ELSE promises
           /\ pendingRequests' = MapDelete(MapDelete(pendingRequests, m.requestId), InitId)
    /\ initializationPromise' =
           IF MapHas(pendingRequests, InitId) /\ initializationPromise = "pending"
           THEN "rejected"
           ELSE initializationPromise
    /\ status' = "error"
    /\ UNCHANGED <<coreVars, serviceVars, isPyodideReady, initPc, globals, handlers, toWorker, posted, worker, now>>

\* the analysis variables while only the worker protocol runs
CoreIdle ==
    /\ fs \in SampleRates
    /\ signal_array = <<>>
    /\ integrated = <<>>
    /\ det = [pc |-> "returned"]
    /\ r_peak_indices = <<>>
    /\ results = NoResults
    /\ metrics = NoMetrics

WorkerInit == CoreIdle /\ ProcessorConstructed

WorkerNext ==
    \/ Initialize
    \/ WorkerHandleInit
    \/ WorkerInitStep
    \/ WorkerInitFail
    \/ Tick
    \/ CallProcessECG
    \/ CallPreprocessOnly
    \/ WorkerHandleRequest
    \/ RunPython
    \/ HandleProgress
    \/ HandlePyodideReady
    \/ HandleEcgProcessed
    \/ HandlePreprocessingComplete
    \/ HandleError

SpecWorker == WorkerInit /\ [][WorkerNext]_vars

\* every await of initializePyodide settles: it resolves or it rejects
SpecWorkerFair ==
    WorkerInit /\ [][WorkerNext]_vars /\ WF_vars(WorkerInitStep \/ WorkerInitFail)

-----------------------------------------------------------------------------
(* Claims about the worker.                                                *)

\* the Python call a request asks for: its own voltages, sample rate and
\* verbose flag
OwnCall(p) ==
    IF p.kind = "processECG"
    THEN [fn |-> "process_ecg_complete", raw_voltages_js |-> p.rawVoltages,
          sample_rate |-> OrDefault(p.config.sampleRate, DefaultSampleRate),
          verbose |-> p.config.verbose]
    ELSE [fn |-> "preprocess_ecg", raw_voltages_js |-> p.rawVoltages,
          sample_rate |-> OrDefault(p.config.sampleRate, DefaultSampleRate),
          verbose |-> FALSE]

\* C3: requests whose handling overlaps in the worker do not interfere: every
\* ECG_PROCESSED or PREPROCESSING_COMPLETE reply is computed from the voltages,
\* sample rate and verbose flag of a request with the reply's requestId.
C3_RepliesFromOwnRequest ==
    \A k \in 1..Len(toMain) :
        toMain[k].type \in {"ECG_PROCESSED", "PREPROCESSING_COMPLETE"} =>
            \E j \in 1..Len(promises) :
                /\ promises[j].requestId = toMain[k].requestId
                /\ OwnCall(promises[j]) = toMain[k].data

\* positions in the worker's posts of the replies that carry the request id
RepliesTo(id) ==
    {k \in 1..Len(posted) :
        /\ posted[k].type \in {"ECG_PROCESSED", "PREPROCESSING_COMPLETE", "ERROR"}
        /\ posted[k].requestId = id}

\* the request is still in the worker's inbox / its handler awaits the Python call
Unhandled(id) ==
    \E k \in 1..Len(toWorker) :
        toWorker[k].type \in {"PROCESS_ECG", "PREPROCESS_ONLY"} /\ toWorker[k].requestId = id

Suspended(id) == \E k \in 1..Len(handlers) : handlers[k].requestId = id

\* one reply per handled PROCESS_ECG request, none before its Python call ran
OneReplyPerProcessEcg ==
    \A j \in 1..Len(promises) :
        promises[j].kind = "processECG" =>
            LET id == promises[j].requestId
            IN  IF Unhandled(id) \/ Suspended(id)
                THEN RepliesTo(id) = {}
                ELSE /\ Cardinality(RepliesTo(id)) = 1
                     /\ \A k \in RepliesTo(id) :
                           \/ /\ posted[k].type = "ECG_PROCESSED"
                              /\ posted[k].data.fn = "process_ecg_complete"
                              /\ ~PythonRaises(posted[k].data.raw_voltages_js)
                           \/ posted[k].type = "ERROR"

\* the step in which the Python call of a PROCESS_ECG handler runs posts ERROR
\* when the call raised and ECG_PROCESSED when it returned, with the handler's
\* request id
ReplyMatchesOutcome ==
    (handlers # <<>> /\ handlers' = Tail(handlers) /\ Head(handlers).type = "PROCESS_ECG") =>
        /\ Len(posted') = Len(posted) + 1
        /\ posted'[Len(posted')].requestId = Head(handlers).requestId
        /\ posted'[Len(posted')].type =
               IF PythonRaises(globals.raw_voltages_js) THEN "ERROR" ELSE "ECG_PROCESSED"

IsInitMessage(m) ==
    IF m.type = "ERROR" THEN m.requestId = NoId
    ELSE m.type \in {"PYODIDE_LOADING_PROGRESS", "PYODIDE_READY"}

InitMessages == SelectSeq(posted, IsInitMessage)

\* the progress reports in their fixed order
ProgressOrder ==
    <<[stage |-> "loading_runtime", progress |-> 0],
      [stage |-> "loading_packages", progress |-> 30],
      [stage |-> "loading_packages", progress |-> 60],
      [stage |-> "initializing_code", progress |-> 90]>>

IsTerminal(m) == m.type \in {"PYODIDE_READY", "ERROR"}

\* the init messages are the first n progress reports, then at most one
\* terminal message; PYODIDE_READY only after all four and after the code is loaded
InitMessagesInOrder ==
    LET im == InitMessages
        n  == Cardinality({k \in 1..Len(im) : im[k].type = "PYODIDE_LOADING_PROGRESS"})
    IN  /\ n <= 4
        /\ Len(im) <= n + 1
        /\ \A k \in 1..n :
              /\ im[k].type = "PYODIDE_LOADING_PROGRESS"
              /\ im[k].data = ProgressOrder[k]
              /\ im[k].data.progress >= 0 /\ im[k].data.progress <= 100
              /\ k > 1 => im[k - 1].data.progress <= im[k].data.progress
        /\ Len(im) = n + 1 =>
              /\ n >= 1
              /\ IsTerminal(im[n + 1])
              /\ im[n + 1].type = "PYODIDE_READY" => (n = 4 /\ isPyodideReady)

\* an initialization under way has posted its terminal message
InitEnded == \E k \in 1..Len(posted) : IsInitMessage(posted[k]) /\ IsTerminal(posted[k])

PendingProcessEcg ==
    {j \in 1..Len(promises) :
        /\ promises[j].kind = "processECG"
        /\ promises[j].state = "pending"
        /\ MapHas(pendingRequests, promises[j].requestId)}

\* C25: whenever a PROCESS_ECG request is pending (registered in
\* pendingRequests and not yet answered) the processor status is
\* 'processing', and at most one PROCESS_ECG request is in flight at a time.
C25_PendingMeansProcessing ==
    /\ PendingProcessEcg # {} => status = "processing"
    /\ Cardinality(PendingProcessEcg) <= 1

-----------------------------------------------------------------------------
(* The life cycle of the ECGProcessor: every call of initialize() and of   *)
(* processECG, the Worker's 'error' event and shutdown().  A promise       *)
(* returned by initialize() is logged in promises with the index of the    *)
(* call that created it; its state is "current" while it is the promise    *)
(* held in initializationPromise.                                          *)

InitPromise(st, attempt) ==
    [kind |-> "initialize", rawVoltages |-> <<>>,
     config |-> [sampleRate |-> 0, verbose |-> FALSE], requestId |-> InitId,
     state |-> st, value |-> [type |-> "InitializationPromise", attempt |-> attempt]]

\* the call that created the promise held in initializationPromise
CurrentAttempt ==
    (CHOOSE q \in {promises[j] : j \in 1..Len(promises)} :
        q.kind = "initialize" /\ q.state = "current").value.attempt

\* (mutant) initialize() without its two early returns
CallInitialize_always ==
    /\ Len(promises) < MaxCalls
    /\ promises' = Append(promises, InitPromise("current", Len(promises) + 1))
    /\ status' = "initializing"
    /\ worker' = "created"
    /\ initializationPromise' = "pending"
    /\ pendingRequests' = MapSet(pendingRequests, InitId, 0)
    /\ toWorker' = Append(toWorker, [type |-> "INIT_PYODIDE"])
    /\ UNCHANGED <<coreVars, serviceVars, isPyodideReady, initPc, globals, handlers, toMain, posted, now>>

\* ECGProcessor.initialize: the promise of the attempt under way or ended,
\* Promise.resolve() on a ready processor, or a new Worker and INIT_PYODIDE
InitializeCalled ==
    IF initializationPromise # "null"
    THEN /\ promises' = Append(promises, InitPromise("current", CurrentAttempt))
         /\ UNCHANGED <<status, worker, initializationPromise, pendingRequests, toWorker>>
    ELSE IF status = "ready"
    THEN /\ promises' = Append(promises, InitPromise("resolved", Len(promises) + 1))
         /\ UNCHANGED <<status, worker, initializationPromise, pendingRequests, toWorker>>
    ELSE /\ promises' = Append(promises, InitPromise("current", Len(promises) + 1))
         /\ status' = "initializing"
         /\ worker' = "created"
         /\ initializationPromise' = "pending"
         /\ pendingRequests' = MapSet(pendingRequests, InitId, 0)
         /\ toWorker' = Append(toWorker, [type |-> "INIT_PYODIDE"])

\* a call of initialize() by the application
CallInitialize ==
    /\ Len(promises) < MaxCalls
    /\ InitializeCalled
    /\ UNCHANGED <<coreVars, serviceVars, isPyodideReady, initPc, globals, handlers, toMain, posted, now>>

\* a call of processECG on a processor that is not ready or has no worker
CallProcessECGUnready ==
    /\ ~(status = "ready" /\ worker # "null")
    /\ Len(promises) < MaxCalls
    /\ \E rawVoltages \in Recordings, config \in Configs : ProcessECGCalled(rawVoltages, config)
    /\ UNCHANGED <<coreVars, serviceVars, workerVars, worker, initializationPromise, now>>

\* the Worker's 'error' event: the listener installed by initialize()
WorkerErrorEvent ==
    /\ worker # "null"
    /\ status' = "error"
    /\ initializationPromise' = IF initializationPromise = "pending" THEN "rejected"
                                ELSE initializationPromise
    /\ UNCHANGED <<coreVars, serviceVars, workerVars, worker, pendingRequests, promises, now>>

\* ECGProcessor.shutdown: the worker is terminated with its undelivered
\* messages, the registered callbacks are dropped and the promise is forgotten
Shutdown ==
    /\ worker' = "null"
    /\ status' = "uninitialized"
    /\ pendingRequests' = {}
    /\ initializationPromise' = "null"
    /\ promises' = [j \in 1..Len(promises) |->
                       IF promises[j].kind = "initialize" /\ promises[j].state = "current"
                       THEN [promises[j] EXCEPT !.state = initializationPromise]
                       ELSE promises[j]]
    /\ isPyodideReady' = FALSE
    /\ initPc' = "idle"
    /\ globals' = NoGlobals
    /\ handlers' = <<>>
    /\ toWorker' = <<>>
    /\ toMain' = <<>>
    /\ UNCHANGED <<coreVars, serviceVars, posted, now>>

LifecycleNext ==
    \/ CallInitialize
    \/ WorkerHandleInit
    \/ WorkerInitStep
    \/ WorkerInitFail
    \/ Tick
    \/ CallProcessECG
    \/ CallProcessECGUnready
    \/ CallPreprocessOnly
    \/ WorkerHandleRequest
    \/ RunPython
    \/ HandleProgress
    \/ HandlePyodideReady
    \/ HandleEcgProcessed
    \/ HandlePreprocessingComplete
    \/ HandleError
    \/ WorkerErrorEvent
    \/ Shutdown

SpecLifecycle == WorkerInit /\ [][LifecycleNext]_vars

\* the step is a call of initialize(): it returns one more promise
IsInitializeCall ==
    /\ Len(promises') = Len(promises) + 1
    /\ promises'[Len(promises')].kind = "initialize"

\* the promises initialize() returned that are the one held in the field
HeldPromises ==
    {j \in 1..Len(promises) : promises[j].kind = "initialize" /\ promises[j].state = "current"}

\* a call in status 'initializing' or 'ready' creates nothing and returns the
\* promise of the attempt made since the last shutdown
RepeatedCallReturnsAttempt ==
    (IsInitializeCall /\ status \in {"initializing", "ready"}) =>
        /\ UNCHANGED <<worker, toWorker, status, initializationPromise, pendingRequests>>
        /\ HeldPromises # {}
        /\ promises'[Len(promises')].state = "current"
        /\ \A j \in HeldPromises :
               promises'[Len(promises')].value.attempt = promises[j].value.attempt

OneInitMessage ==
    Cardinality({k \in 1..Len(toWorker) : toWorker[k].type = "INIT_PYODIDE"}) <= 1

\* C26: initialize() is idempotent between shutdowns: a call while the status
\* is 'initializing' or 'ready' creates no Worker and posts no INIT_PYODIDE
\* message, so at most one is posted, and it returns the promise of the single
\* attempt, which settles with that attempt's outcome.
C26_InitializeIdempotent == [][RepeatedCallReturnsAttempt]_vars /\ []OneInitMessage

\* initialize() was called a second time and returned the promise of the first
\* call's attempt, which has resolved
C26_Witness ==
    /\ status = "ready"
    /\ initializationPromise = "resolved"
    /\ \E i, j \in HeldPromises :
          /\ i < j
          /\ promises[i].value.attempt = i
          /\ promises[j].value.attempt = i

\* the retry after a failed attempt posts INIT_PYODIDE and returns a pending
\* promise of its own
RetryStartsAttempt ==
    (IsInitializeCall /\ initializationPromise = "rejected") =>
        /\ toWorker' = Append(toWorker, [type |-> "INIT_PYODIDE"])
        /\ initializationPromise' = "pending"
        /\ promises'[Len(promises')].value.attempt = Len(promises')

\* C23: after an initialization attempt has failed (an ERROR reply or a Worker
\* error event while '__init__' is pending), calling initialize() again starts
\* a fresh attempt: a new INIT_PYODIDE message is posted and the returned
\* promise can resolve.
C23_RetryStartsFreshAttempt == [][RetryStartsAttempt]_vars

\* the step is a call of processECG: it returns one more promise
IsProcessEcgCall ==
    /\ Len(promises') = Len(promises) + 1
    /\ promises'[Len(promises')].kind = "processECG"

\* a request has ended with an ERROR reply handled by the processor
ProcessingFailed ==
    \E j \in 1..Len(promises) :
        /\ promises[j].kind = "processECG"
        /\ promises[j].state = "rejected"
        /\ promises[j].requestId # NoId

\* processECGFile on a processor that is not ready awaits initialize(), which
\* returns the resolved promise, and then calls processECG: the call is
\* accepted and posts PROCESS_ECG
AcceptedAfterError ==
    (IsProcessEcgCall /\ ProcessingFailed /\ status = "error"
        /\ initializationPromise = "resolved" /\ worker # "null") =>
        /\ promises'[Len(promises')].state = "pending"
        /\ Len(toWorker') = Len(toWorker) + 1
        /\ toWorker'[Len(toWorker')].type = "PROCESS_ECG"

\* C22: after a processing request has ended with an ERROR reply the processor
\* is usable again: a later processECGFile call, which calls initialize() when
\* the processor is not ready and then processECG, is accepted and posts a
\* PROCESS_ECG message.
C22_UsableAfterProcessingError == [][AcceptedAfterError]_vars

\* a processECG promise is pending / has been settled
PendingCall(j) ==
    j <= Len(promises) /\ promises[j].kind = "processECG" /\ promises[j].state = "pending"

SettledCall(j) ==
    j <= Len(promises) /\ promises[j].kind = "processECG" /\ promises[j].state # "pending"

\* C24: every promise returned by ECGProcessor.processECG eventually settles,
\* also when shutdown() is called or the Worker's 'error' event fires while
\* the request is pending.
C24_ProcessEcgPromiseSettles == \A j \in 1..MaxCalls : PendingCall(j) ~> SettledCall(j)

\* the position of initializePyodide and the lengths of the queues: every step
\* of the worker and every handled reply changes one of them
progress == <<initPc, Len(toWorker), Len(handlers), Len(toMain)>>

\* the worker handles every message and runs every scheduled Python call, every
\* await of initializePyodide settles, and the main thread handles every reply
SpecLifecycleFair ==
    /\ WorkerInit
    /\ [][LifecycleNext]_vars
    /\ WF_progress(WorkerHandleInit \/ WorkerInitStep \/ WorkerInitFail)
    /\ WF_progress(WorkerHandleRequest \/ RunPython)
    /\ WF_progress(HandleProgress \/ HandlePyodideReady \/ HandleEcgProcessed
                      \/ HandlePreprocessingComplete \/ HandleError)
-----------------------------------------------------------------------------
(* The file parsers (src/services/dataParser.ts).  A text file is the      *)
(* sequence of its lines and a line the sequence of its comma-separated    *)
(* fields, each without the white space around it; an XML file is the      *)
(* document DOMParser builds from it.                                      *)

NaN == [n |-> 0, d |-> 0]

Infinity == [n |-> 1, d |-> 0]

isNaN(x) == x.n = 0 /\ x.d = 0

\* the numbers written in the files: the text and the fraction it denotes
Literals ==
    {<<"0", 0, 1>>, <<"1", 1, 1>>, <<"0.004", 1, 250>>, <<"0.0005", 1, 2000>>,
     <<"0.05", 1, 20>>, <<"1.2", 6, 5>>, <<"7", 7, 1>>, <<"-9", -9, 1>>,
     <<"150", 150, 1>>, <<"1224", 1224, 1>>, <<"50", 50, 1>>, <<"100", 100, 1>>,
     <<"2000", 2000, 1>>, <<"250", 250, 1>>}

\* parseFloat: NaN for a text that does not start with a number
parseFloat(text) ==
    IF \E l \in Literals : l[1] = text
    THEN LET l == CHOOSE l \in Literals : l[1] = text IN Rat(l[2], l[3])
    ELSE NaN

\* values[k] of a JavaScript array of texts, undefined beyond its end
At(values, k) == IF k < Len(values) THEN values[k + 1] ELSE "undefined"

\* text.toLowerCase().includes(word) for the words the parsers look for
TextIncludes(text, word) ==
    <<text, word>> \in {<<"Time", "time">>, <<"'sample #'", "sample">>, <<"'MLII'", "mlii">>,
                        <<"'V5'", "v5">>, <<"ECG", "ecg">>, <<"voltage", "voltage">>}

\* line.includes(word): the words hold no comma, so a field includes it
LineIncludes(values, word) == \E k \in 1..Len(values) : TextIncludes(values[k], word)

\* text.trim().split('\n'): the lines from the first to the last that is not
\* blank, one empty line when every line is blank
TrimmedLines(lines) ==
    LET kept == {k \in 1..Len(lines) : lines[k] # <<"">>}
    IN  IF kept = {} THEN << <<"">> >>
        ELSE SubSeq(lines, CHOOSE k \in kept : \A j \in kept : k <= j,
                           CHOOSE k \in kept : \A j \in kept : j <= k)

Thrown(message) == [thrown |-> message]

IsThrown(r) == "thrown" \in DOMAIN r

\* the ADC-to-millivolt conversion and the clamp of parseMITBIH_CSV
Millivolts(voltage) ==
    LET mv == IF RatGT(voltage, RatInt(100))
              THEN RatScale(RatSub(voltage, RatInt(1024)), 1, 200)
              ELSE voltage
    IN  IF RatGT(mv, RatInt(5)) THEN RatInt(5)
        ELSE IF RatLT(mv, RatInt(-5)) THEN RatInt(-5)
        ELSE mv

\* voltages.length / sampleRate
Duration(length, sampleRate) ==
    IF sampleRate = 0 THEN Infinity
    ELSE IF sampleRate > 0 THEN Rat(length, sampleRate)
    ELSE Rat(-length, -sampleRate)

parseMITBIH_CSV(f) ==
    LET lines == TrimmedLines(f.lines)
        firstLine == lines[1]
        hasHeader == \E word \in {"time", "sample", "mlii", "v1", "v5"} :
                        LineIncludes(firstLine, word)
        mlii == {k \in 1..Len(firstLine) : TextIncludes(firstLine[k], "mlii")}
        leadColumn == IF hasHeader /\ mlii # {}
                      THEN (CHOOSE k \in mlii : \A j \in mlii : k <= j) - 1
                      ELSE 1
        startLine == IF hasHeader THEN 1 ELSE 0
        Kept(values) == /\ values # <<"">>
                        /\ Len(values) >= 2
                        /\ ~isNaN(parseFloat(At(values, leadColumn)))
        rows == SelectSeq(SubSeq(lines, startLine + 1, Len(lines)), Kept)
        voltages == [k \in 1..Len(rows) |-> Millivolts(parseFloat(At(rows[k], leadColumn)))]
    IN  IF Len(lines) < 2 THEN Thrown("File is empty or has insufficient data")
        ELSE IF Len(voltages) = 0 THEN Thrown("No valid voltage data found in file")
        ELSE [voltages |-> voltages, sampleRate |-> 360,
              duration |-> Duration(Len(voltages), 360), format |-> "mitbih"]

\* the sum of the intervals times[k + 1] - times[k] for k in lo..hi; the sum is
\* exact, so the order of the additions does not matter
RECURSIVE SumIntervals(_, _, _)
SumIntervals(times, lo, hi) ==
    IF lo > hi THEN RatInt(0)
    ELSE IF lo = hi THEN RatSub(times[lo + 1], times[lo])
    ELSE RatAdd(SumIntervals(times, lo, (lo + hi) \div 2),
                SumIntervals(times, (lo + hi) \div 2 + 1, hi))

\* Math.round(1 / (sum / count)) for sum > 0
RoundedRate(sum, count) == (2 * count * sum.d + sum.n) \div (2 * sum.n)

parseGenericCSV(f) ==
    LET lines == TrimmedLines(f.lines)
        hasHeader == \E word \in {"time", "voltage", "ecg"} : LineIncludes(lines[1], word)
        startLine == IF hasHeader THEN 1 ELSE 0
        Kept(values) == /\ values # <<"">>
                        /\ Len(values) >= 2
                        /\ ~isNaN(parseFloat(values[1]))
                        /\ ~isNaN(parseFloat(values[2]))
        rows == SelectSeq(SubSeq(lines, startLine + 1, Len(lines)), Kept)
        times == [k \in 1..Len(rows) |-> parseFloat(rows[k][1])]
        voltages == [k \in 1..Len(rows) |-> parseFloat(rows[k][2])]
        count == Min2(100, Len(times)) - 1
        sum == SumIntervals(times, 1, count)
        sampleRate == IF Len(times) > 1 /\ sum.n > 0 THEN RoundedRate(sum, count)
                      ELSE DefaultSampleRate
    IN  IF Len(lines) < 2 THEN Thrown("File is empty or has insufficient data")
        ELSE IF Len(voltages) = 0 THEN Thrown("No valid data found in CSV")
        ELSE [voltages |-> voltages, sampleRate |-> sampleRate,
              duration |-> Duration(Len(voltages), sampleRate), format |-> "csv"]

\* the texts of the waveform nodes, one after the other
RECURSIVE NodeTexts(_)
NodeTexts(nodes) == IF nodes = <<>> THEN <<>> ELSE Head(nodes) \o NodeTexts(Tail(nodes))

\* the documents hold whole sample rates
parsePhilipsXML(f) ==
    LET doc == f.document
        rate == IF doc.samplerate = "absent" THEN NaN
                ELSE parseFloat(IF doc.samplerate = "" THEN "250" ELSE doc.samplerate)
        sampleRate == IF isNaN(rate) THEN DefaultSampleRate ELSE rate.n
        IsNumber(text) == ~isNaN(parseFloat(text))
        values == SelectSeq(NodeTexts(doc.waveform), IsNumber)
        voltages == [k \in 1..Len(values) |-> parseFloat(values[k])]
    IN  IF doc.parsererror THEN Thrown("Invalid XML format")
        ELSE IF Len(doc.waveform) = 0 THEN Thrown("No waveform data found in XML")
        ELSE IF Len(voltages) = 0 THEN Thrown("No valid waveform data extracted from XML")
        ELSE [voltages |-> voltages, sampleRate |-> sampleRate,
              duration |-> Duration(Len(voltages), sampleRate), format |-> "xml"]

\* file.name.toLowerCase().endsWith(extension)
EndsWith(name, extension) ==
    <<name, extension>> \in {<<"rec.csv", ".csv">>, <<"REC.TXT", ".txt">>, <<"rec.xml", ".xml">>}

\* the error parseECGFile throws in place of the one it caught
FailedToParse(r) == [thrown |-> "Failed to parse ECG file", cause |-> r.thrown]

\* (mutant) the generic parser tried before the MIT-BIH one
parseECGFile_genericFirst(f) ==
    IF EndsWith(f.name, ".xml")
    THEN IF IsThrown(parsePhilipsXML(f)) THEN FailedToParse(parsePhilipsXML(f))
         ELSE parsePhilipsXML(f)
    ELSE IF EndsWith(f.name, ".csv") \/ EndsWith(f.name, ".txt")
    THEN IF ~IsThrown(parseGenericCSV(f)) THEN parseGenericCSV(f)
         ELSE IF IsThrown(parseMITBIH_CSV(f)) THEN FailedToParse(parseMITBIH_CSV(f))
         ELSE parseMITBIH_CSV(f)
    ELSE FailedToParse(Thrown("Unsupported file format"))

parseECGFile(f) ==
    IF EndsWith(f.name, ".xml")
    THEN IF IsThrown(parsePhilipsXML(f)) THEN FailedToParse(parsePhilipsXML(f))
         ELSE parsePhilipsXML(f)
    ELSE IF EndsWith(f.name, ".csv") \/ EndsWith(f.name, ".txt")
    THEN IF ~IsThrown(parseMITBIH_CSV(f)) THEN parseMITBIH_CSV(f)
         ELSE IF IsThrown(parseGenericCSV(f)) THEN FailedToParse(parseGenericCSV(f))
         ELSE parseGenericCSV(f)
    ELSE FailedToParse(Thrown("Unsupported file format"))

\* the largest and the smallest of the voltages of a signal that is not empty
MaxOf(voltages) ==
    CHOOSE v \in {voltages[k] : k \in 1..Len(voltages)} :
        \A k \in 1..Len(voltages) : RatLE(voltages[k], v)

MinOf(voltages) ==
    CHOOSE v \in {voltages[k] : k \in 1..Len(voltages)} :
        \A k \in 1..Len(voltages) : RatLE(v, voltages[k])

ShortSignal == "Very short signal (< 100 samples). Results may be unreliable."

LargeVoltage ==
    "Voltage values seem unusually large. Data might be in raw ADC units instead of mV."

SmallVoltage == "Voltage values seem unusually small. Check units."

FlatSignal == "Signal appears flat (no variation detected)."

LowSampleRate == "Sample rate < 100 Hz. ECG analysis requires at least 100 Hz."

HighSampleRate == "Sample rate > 1000 Hz. Consider downsampling for performance."

ShortDuration ==
    "Signal duration < 2 seconds. At least 4-5 seconds recommended for reliable analysis."

\* w.includes('requires')
IncludesRequires(w) == w = LowSampleRate

\* the warnings of validateECGData, in the order it pushes them
Warnings(data) ==
    LET max == MaxOf(data.voltages)
        min == MinOf(data.voltages)
        Push(cond, w) == IF cond THEN <<w>> ELSE <<>>
    IN  Push(Len(data.voltages) < 100, ShortSignal)
        \o Push(RatGT(max, RatInt(100)) \/ RatLT(min, RatInt(-100)), LargeVoltage)
        \o Push(RatLT(max, Rat(1, 10)) /\ RatGT(min, Rat(-1, 10)) /\ max # min, SmallVoltage)
        \o Push(RatLT(RatSub(max, min), Rat(1, 1000)), FlatSignal)
        \o Push(data.sampleRate < 100, LowSampleRate)
        \o Push(data.sampleRate > 1000, HighSampleRate)
        \o Push(data.duration.d # 0 /\ RatLT(data.duration, RatInt(2)), ShortDuration)

\* (mutant) valid only without any warning
validateECGData_noWarning(data) ==
    [valid |-> Len(Warnings(data)) = 0, warnings |-> Warnings(data)]

validateECGData(data) ==
    [valid |-> \/ Len(Warnings(data)) = 0
               \/ \A k \in 1..Len(Warnings(data)) : ~IncludesRequires(Warnings(data)[k]),
     warnings |-> Warnings(data)]

\* a block of lines written reps times
Repeat(block, reps) ==
    [k \in 1..(Len(block) * reps) |-> block[((k - 1) % Len(block)) + 1]]

\* header lines and the blank line
HeadLines ==
    {<<"">>, <<"'sample #'", "'MLII'", "'V5'">>, <<"Time", "ECG", "'MLII'">>,
     <<"Time", "voltage">>, <<"'MLII'", "'V5'">>}

\* data lines: time and voltage, an ADC value, a text in either column, one
\* field only, three fields
DataLines ==
    {<<"0", "1.2">>, <<"0.004", "0.05">>, <<"1", "1224">>, <<"0.0005", "-9">>,
     <<"abc", "7">>, <<"0.004", "abc">>, <<"1.2">>, <<"1", "150", "0.05">>}

\* the sequences of at most two elements of a set
UpToTwo(S) == {<<>>} \cup {<<x>> : x \in S} \cup {<<x, y>> : x, y \in S}

\* the long files repeat their data lines this many times
LongReps == 100

\* .csv, .txt and other files: up to two header or blank lines, then up to
\* two data lines
TextFilesOf(names, heads, blocks, reps) ==
    {[name |-> name, lines |-> head \o Repeat(block, reps), document |-> NoDocument] :
        name \in names, head \in heads, block \in blocks}

\* the long files: no header or one with the lead in the third column, and
\* time and voltage in every line
LongFiles ==
    TextFilesOf({"rec.csv"}, {<<>>, <<<<"Time", "ECG", "'MLII'">>>>},
                UpToTwo({<<"0", "1.2">>, <<"0.004", "0.05">>, <<"1", "1224">>}) \ {<<>>},
                LongReps)

TextFiles ==
    TextFilesOf({"rec.csv", "REC.TXT", "rec.dat"}, UpToTwo(HeadLines), UpToTwo(DataLines), 1)
    \cup LongFiles

XmlFiles ==
    {[name |-> "rec.xml", lines |-> <<>>,
      document |-> [parsererror |-> e, samplerate |-> rate, waveform |-> nodes]] :
        e \in BOOLEAN, rate \in {"absent", "", "abc", "50", "100", "2000"},
        nodes \in {<<>>, << <<"abc">> >>, << <<"1.2", "abc">>, <<"0.05">> >>,
                   << <<"150">>, <<"-9", "7">> >>, << <<"0.05", "0.004">> >>,
                   << Repeat(<<"1.2", "0.05">>, LongReps) >>}}

Files == TextFiles \cup XmlFiles

\* the files handed to processECGFile
Uploads ==
    TextFilesOf({"rec.csv"}, {<<>>, <<<<"Time", "ECG", "'MLII'">>>>},
                UpToTwo({<<"0", "1.2">>, <<"1", "1224">>, <<"0.0005", "-9">>,
                         <<"1", "150", "0.05">>}), 1)
    \cup TextFilesOf({"rec.csv"}, {<<>>, <<<<"Time", "ECG", "'MLII'">>>>},
                     {<<<<"0", "1.2">>, <<"0.004", "0.05">>>>}, LongReps)
    \cup {f \in XmlFiles : ~f.document.parsererror}

-----------------------------------------------------------------------------
(* The parsers applied to a file, and validateECGData to what they return. *)

ParseFile ==
    /\ servicePc = "idle"
    /\ \E f \in Files :
          /\ file' = f
          /\ parsedData' = parseECGFile(f)
    /\ servicePc' = "parsed"
    /\ UNCHANGED <<coreVars, workerVars, mainVars, validation, awaiting, serviceResult>>

ValidateFile ==
    /\ servicePc = "parsed"
    /\ ~IsThrown(parsedData)
    /\ validation' = validateECGData(parsedData)
    /\ servicePc' = "validated"
    /\ UNCHANGED <<coreVars, workerVars, mainVars, file, parsedData, awaiting, serviceResult>>

ParserNext == ParseFile \/ ValidateFile

SpecParser == WorkerInit /\ [][ParserNext]_vars

-----------------------------------------------------------------------------
(* processECGFile (the service), with the processor and the worker.        *)

\* processECGFile is called with a file and awaits parseECGFile
ProcessECGFile ==
    /\ servicePc = "idle"
    /\ \E f \in Uploads : file' = f
    /\ servicePc' = "parsing"
    /\ UNCHANGED <<coreVars, workerVars, mainVars, parsedData, validation, awaiting, serviceResult>>

\* the configuration processECGFile hands to processECG
ServiceConfig(data) == [sampleRate |-> data.sampleRate, verbose |-> TRUE]

\* processECGFile resumes with the parsed data: it validates them and, when
\* they are valid, calls initialize() on a processor that is not ready and
\* processECG on one that is
FileParsed ==
    /\ servicePc = "parsing"
    /\ LET data == parseECGFile(file)
           checked == validateECGData(data)
       IN  IF IsThrown(data)
           THEN /\ servicePc' = "rejected"
                /\ serviceResult' = [type |-> "Error", message |-> data.thrown]
                /\ UNCHANGED <<parsedData, validation, awaiting, status, worker,
                               initializationPromise, pendingRequests, promises, toWorker>>
           ELSE /\ parsedData' = data
                /\ validation' = checked
                /\ IF ~checked.valid
                   THEN /\ servicePc' = "rejected"
                        /\ serviceResult' = [type |-> "Error", message |-> "Invalid ECG data",
                                             warnings |-> checked.warnings]
                        /\ UNCHANGED <<awaiting, status, worker, initializationPromise,
                                       pendingRequests, promises, toWorker>>
                   ELSE IF status # "ready"
                   THEN /\ InitializeCalled
                        /\ servicePc' = "initializing"
                        /\ awaiting' = Len(promises) + 1
                        /\ UNCHANGED serviceResult
                   ELSE /\ ProcessECGCalled(data.voltages, ServiceConfig(data))
                        /\ servicePc' = "processing"
                        /\ awaiting' = Len(promises) + 1
                        /\ UNCHANGED <<serviceResult, worker, initializationPromise>>
    /\ UNCHANGED <<coreVars, file, isPyodideReady, initPc, globals, handlers, toMain, posted, now>>

\* the state of the j-th returned promise
PromiseState(j) ==
    IF promises[j].state = "current" THEN initializationPromise ELSE promises[j].state

\* processECGFile resumes after the promise of initialize() has settled
ProcessorInitialized ==
    /\ servicePc = "initializing"
    /\ PromiseState(awaiting) \in {"resolved", "rejected"}
    /\ IF PromiseState(awaiting) = "rejected"
       THEN /\ servicePc' = "rejected"
            /\ serviceResult' = [type |-> "Error", message |-> "Failed to initialize Pyodide"]
            /\ UNCHANGED <<awaiting, status, pendingRequests, promises, toWorker>>
       ELSE /\ ProcessECGCalled(parsedData.voltages, ServiceConfig(parsedData))
            /\ servicePc' = "processing"
            /\ awaiting' = Len(promises) + 1
            /\ UNCHANGED serviceResult
    /\ UNCHANGED <<coreVars, file, parsedData, validation, isPyodideReady, initPc, globals,
                   handlers, toMain, posted, worker, initializationPromise, now>>

\* processECGFile resumes after the promise of processECG has settled
ProcessingEnded ==
    /\ servicePc = "processing"
    /\ promises[awaiting].state \in {"resolved", "rejected"}
    /\ IF promises[awaiting].state = "resolved"
       THEN /\ servicePc' = "done"
            /\ serviceResult' =
                   [type |-> "ECGServiceResult", result |-> promises[awaiting].value,
                    fileInfo |-> [name |-> file.name, format |-> parsedData.format,
                                  sampleRate |-> parsedData.sampleRate,
                                  duration |-> parsedData.duration,
                                  warnings |-> validation.warnings]]
       ELSE /\ servicePc' = "rejected"
            /\ serviceResult' = [type |-> "Error", message |-> promises[awaiting].value.error]
    /\ UNCHANGED <<coreVars, workerVars, mainVars, file, parsedData, validation, awaiting>>

\* useECGSystem calls initialize() once, when the application is mounted
MountInitialize == promises = <<>> /\ CallInitialize

ServiceNext ==
    \/ MountInitialize
    \/ WorkerHandleInit
    \/ WorkerInitStep
    \/ WorkerInitFail
    \/ HandleProgress
    \/ HandlePyodideReady
    \/ HandleError
    \/ ProcessECGFile
    \/ FileParsed
    \/ ProcessorInitialized
    \/ ProcessingEnded
    \/ WorkerHandleRequest
    \/ RunPython
    \/ HandleEcgProcessed

SpecService == WorkerInit /\ [][ServiceNext]_vars

-----------------------------------------------------------------------------
(* Claims about the parsers and the service.                               *)

IsTextFile == EndsWith(file.name, ".csv") \/ EndsWith(file.name, ".txt")

\* a line of two or more fields, the second a number
DataLine(values) == Len(values) >= 2 /\ ~isNaN(parseFloat(values[2]))

\* two or more lines, no column of the first names the lead MLII, and a line
\* other than the first is a data line
Readable(lines) ==
    /\ Len(lines) >= 2
    /\ ~LineIncludes(lines[1], "mlii")
    /\ \E k \in 2..Len(lines) : DataLine(lines[k])

MitbihResult ==
    /\ ~IsThrown(parsedData)
    /\ parsedData.format = "mitbih"
    /\ parsedData.sampleRate = 360
    /\ \A k \in 1..Len(parsedData.voltages) :
          /\ RatLE(RatInt(-5), parsedData.voltages[k])
          /\ RatLE(parsedData.voltages[k], RatInt(5))

GenericOnlyAfterThrow ==
    (~IsThrown(parsedData) /\ parsedData.format = "csv") => IsThrown(parseMITBIH_CSV(file))

\* C30: for a .csv or .txt file whose text, without the white space before and
\* after it, has at least 2 lines, no column of the first line naming 'mlii'
\* and a line other than the first with 2 or more fields and a numeric second
\* field, parseECGFile returns the MIT-BIH result: format 'mitbih', sampleRate
\* 360, every voltage in [-5, 5].  The generic parser's result is returned only
\* when parseMITBIH_CSV has thrown.
C30_MitbihParserFirst ==
    servicePc # "idle" =>
        /\ (IsTextFile /\ Readable(TrimmedLines(file.lines))) => MitbihResult
        /\ GenericOnlyAfterThrow

\* C30 as stated, the lines being those of the file
C30_MitbihParserFirstAsStated ==
    servicePc # "idle" =>
        /\ (IsTextFile /\ Readable(file.lines)) => MitbihResult
        /\ GenericOnlyAfterThrow

\* a file with a header and a blank line is parsed by the MIT-BIH parser, which
\* converts an ADC value and clamps a voltage
C30_Witness ==
    /\ servicePc = "parsed"
    /\ IsTextFile
    /\ Readable(TrimmedLines(file.lines))
    /\ file.lines[1] = <<"">>
    /\ MitbihResult
    /\ Len(parsedData.voltages) = 2
    /\ parsedData.voltages[1] = RatInt(1)
    /\ parsedData.voltages[2] = RatInt(5)


\* processECGFile has parsed the file
Parsed == parsedData.format # "unknown"

InvalidRejected ==
    /\ servicePc = "rejected"
    /\ serviceResult.type = "Error"
    /\ serviceResult.message = "Invalid ECG data"

\* processECGFile has called neither initialize() nor processECG
NothingSent ==
    /\ awaiting = 0
    /\ \A j \in 1..Len(promises) : promises[j].kind # "processECG"

Carried(warnings) == {warnings[k] : k \in 1..Len(warnings)}

\* the warnings other than the one about a sample rate below 100 Hz
OtherWarnings ==
    {ShortSignal, LargeVoltage, SmallVoltage, FlatSignal, HighSampleRate, ShortDuration}

RejectedOnlyForLowRate ==
    Parsed =>
        /\ InvalidRejected <=> parsedData.sampleRate < 100
        /\ InvalidRejected => NothingSent
        /\ parsedData.sampleRate >= 100 => Carried(validation.warnings) \subseteq OtherWarnings
        /\ servicePc = "done" => serviceResult.fileInfo.warnings = validation.warnings

\* the step in which processECGFile resumes with data of 100 Hz or more goes
\* on to the processor, and posts PROCESS_ECG with the parsed voltages and
\* sample rate when the processor is ready
ValidDataProcessed ==
    (servicePc = "parsing" /\ servicePc' # "parsing" /\ parsedData'.format # "unknown"
        /\ parsedData'.sampleRate >= 100) =>
        /\ servicePc' \in {"initializing", "processing"}
        /\ status = "ready" =>
              /\ Len(toWorker') = Len(toWorker) + 1
              /\ toWorker'[Len(toWorker')].type = "PROCESS_ECG"
              /\ toWorker'[Len(toWorker')].rawVoltages = parsedData'.voltages
              /\ toWorker'[Len(toWorker')].config.sampleRate = parsedData'.sampleRate

\* C21: processECGFile rejects with 'Invalid ECG data', having sent nothing to
\* the worker, if and only if the parsed sample rate is below 100 Hz; every
\* other validation warning (short signal, large or small amplitude, flat
\* signal, sample rate above 1000 Hz, duration below 2 s) leaves the data
\* valid, so that processing goes on, and is carried in fileInfo.warnings.
C21_InvalidOnlyBelow100Hz == []RejectedOnlyForLowRate /\ [][ValidDataProcessed]_vars

\* a file sampled below 100 Hz with large voltages is rejected on a ready
\* processor
C21_Witness ==
    /\ InvalidRejected
    /\ status = "ready"
    /\ parsedData.sampleRate < 100
    /\ LargeVoltage \in Carried(validation.warnings)
    /\ NothingSent

\* a file with warnings has been processed
ProcessedWithWarnings ==
    /\ servicePc = "done"
    /\ {HighSampleRate, ShortDuration} \subseteq Carried(serviceResult.fileInfo.warnings)

====
